---- MODULE Spec2Model ----
(***************************************************************************)
(* Model of wincent's Quick Access execution layer: the cached script      *)
(* executor (src/src/script_executor.rs) and the QuickAccessManager        *)
(* (src/src/manager.rs) running concurrent async calls against the         *)
(* Windows Quick Access lists and their backing jump-list files.           *)
(*                                                                         *)
(* Every async entry point is compiled to a plan: the sequence of steps it *)
(* performs, in source order.  A step that awaits a PowerShell run goes    *)
(* through Observe / Lookup / ProcExit   / ExecFinish / TimeoutFire; the   *)
(* other steps are the synchronous statements between awaits.  "?" on an   *)
(* error aborts the plan with that error.                                  *)
(***************************************************************************)
EXTENDS Integers, Sequences, FiniteSets, TLC

\* Largest value of the wall clock (SystemTime) in the model.
MaxTime == 1

\* Saturation value of the probe-run counter.
MaxCount == 2

\* Concurrent callers of one QuickAccessManager: "t1" uses every entry point,
\* "t2" the reading ones (get_items, check_feasible, clear_cache).
Tasks == {"t1", "t2"}
Writers == {"t1"}

\* The caller of the sequential specifications.
SeqTasks == {"t1"}

\* What the callers of one run use: one Quick Access category, or the
\* feasibility check beside recent-files calls, or the bare ScriptExecutor.
Profiles == {"recent", "frequent", "all", "feas", "script"}

ProfileKinds(p) ==
    CASE p = "recent" -> {"RecentFiles"}
      [] p = "frequent" -> {"FrequentFolders"}
      [] p = "all" -> {"All"}
      [] p = "feas" -> {"RecentFiles"}
      [] p = "both" -> {"RecentFiles", "FrequentFolders"}
      [] OTHER -> {}

UsesRecent(p) == p # "frequent"
UsesFrequent(p) == p \in {"frequent", "all"}

\* Paths given to the entry points: an existing file, an existing directory
\* and a path that does not exist on disk.
Files == {"f1"}
Dirs == {"d1"}
Gone == {"x"}
Paths == Files \cup Dirs \cup Gone

\* A path asked about that is a proper part of the listed file's path.
PartPaths == {"f"}

\* A line printed by a script that is not a Quick Access item.
Msg == "msg"

NoPath == "-"
\* Sentinels outside the clock range 0..MaxTime.
NoTime == 0 - 1
Absent == 0 - 2
NoTask == "none"

\* enum QuickAccess and enum PSScript.
QuickAccess == {"All", "RecentFiles", "FrequentFolders"}

PSScript ==
    {"RefreshExplorer", "QueryQuickAccess", "QueryRecentFile", "QueryFrequentFolder",
     "RemoveRecentFile", "PinToFrequentFolder", "UnpinFromFrequentFolder",
     "EmptyPinnedFolders", "CheckQueryFeasible", "CheckPinUnpinFeasible"}

VARIABLES
    profile,        \* the entry points and category this run's callers use
    now,            \* SystemTime::now()
    recentMtime,    \* mtime of 5f7b5f1e01b83767.automaticDestinations-ms, or Absent
    frequentMtime,  \* mtime of f01b4d95cf55d32a.automaticDestinations-ms, or Absent
    recent,         \* the Recent Files list Explorer shows
    frequent,       \* the Frequent Folders list Explorer shows
    cache,          \* CachedScriptExecutor.cache: CacheKey -> CacheEntry
    feasibility,    \* QuickAccessManager.feasibility: OnceCell<FeasibilityStatus>
    initBy,         \* the task holding the OnceCell's initialisation permit
    task,           \* per task: position, arguments and locals of its call
    hist,           \* per task: history of the current call
    probeRuns,      \* per probe script: how often it was launched
    lastMut,        \* last recent-files mutation of the manager nothing overwrote
    abandoned,      \* the query run a timed-out call left behind, still running
    files,          \* ScriptStorage: the script files on disk, by path
    clock,          \* ScriptStorage: SystemTime::now(), in units of 24 hours
    proc,           \* ScriptStorage: per process, its version and its resolve
    arg,            \* the input of a pure function under check
    got             \* what the function returned for it

\* The script store and the pure functions: untouched by the manager's steps.
storageVars == <<files, clock, proc>>
pureVars == <<arg, got>>
otherVars == <<storageVars, pureVars>>

managerVars ==
    <<profile, now, recentMtime, frequentMtime, recent, frequent, cache, feasibility,
      initBy, task, hist, probeRuns, lastMut, abandoned>>

vars == <<managerVars, otherVars>>

envVars == <<otherVars, abandoned, profile, now, recentMtime, frequentMtime, recent, frequent>>

----------------------------------------------------------------------------
\* Results.

OkRes(lines) == [ok |-> TRUE, val |-> lines, err |-> ""]
ErrRes(e) == [ok |-> FALSE, val |-> {}, err |-> e]
NoRes == [ok |-> FALSE, val |-> {}, err |-> "none"]
NoOut == [exit |-> "none", lines |-> {}]

NoCall ==
    [op |-> "none", path |-> NoPath, qa |-> "-", script |-> "-",
     force |-> FALSE, refresh |-> FALSE, sysdef |-> FALSE]

IdleTask ==
    [pc |-> "idle", call |-> NoCall, plan |-> <<>>, cur |-> NoTime,
     out |-> NoOut, res |-> NoRes, probe |-> [query |-> FALSE, handle |-> FALSE],
     ret |-> NoRes]

\* Mutant of Uninit: the manager is built with its flags already probed.
Probed == [known |-> TRUE, query |-> TRUE, handle |-> TRUE]

\* OnceCell::new(): no FeasibilityStatus yet.
Uninit == [known |-> FALSE, query |-> FALSE, handle |-> FALSE]

\* launches: subprocesses this call has spawned; mutated: it performed a
\* native add or spawned a mutating script; pre: what its membership
\* pre-check reported; served: how its last query was answered; feasAtStart:
\* the feasibility cell when it began; clean: nothing but this call changed
\* the recent list since the call's own mutation.
NoHist ==
    [launches |-> 0, mutated |-> FALSE, pre |-> "none", served |-> "none",
     feasAtStart |-> Uninit, clean |-> FALSE]

NoMut == [path |-> NoPath, present |-> FALSE]

NoRun == [key |-> <<"-", NoPath>>, cur |-> NoTime]

----------------------------------------------------------------------------
\* CachedScriptExecutor: keys, freshness, stored entries.

CacheKey(script_type, parameter) == <<script_type, parameter>>

EmptyCache == [k \in {} |-> NoRes]

\* Mutants of should_cache: every kind is cached; the mutating kinds are
\* cached beside the queries.
should_cache_all(script_type) == TRUE

should_cache_mutations(script_type) ==
    script_type \in {"QueryQuickAccess", "QueryRecentFile", "QueryFrequentFolder",
                     "RemoveRecentFile", "PinToFrequentFolder",
                     "UnpinFromFrequentFolder", "EmptyPinnedFolders"}

\* matches!(script_type, QueryQuickAccess | QueryRecentFile | QueryFrequentFolder)
should_cache(script_type) ==
    script_type \in {"QueryQuickAccess", "QueryRecentFile", "QueryFrequentFolder"}

get_recent_files_modified_time ==
    IF recentMtime = Absent THEN now ELSE recentMtime

get_frequent_folders_modified_time ==
    IF frequentMtime = Absent THEN now ELSE frequentMtime

Max(a, b) == IF a >= b THEN a ELSE b

get_quick_access_modified_time ==
    Max(get_recent_files_modified_time, get_frequent_folders_modified_time)

get_modified_time_for_script(script_type) ==
    CASE script_type = "QueryRecentFile" -> get_recent_files_modified_time
      [] script_type = "QueryFrequentFolder" -> get_frequent_folders_modified_time
      [] script_type = "QueryQuickAccess" -> get_quick_access_modified_time
      [] OTHER -> now

\* Mutants of IsFresh: the entry is served whatever its age; the entry is
\* served only when strictly newer than the backing file.
IsFreshAlways(timestamp, current_modified_time) == TRUE

IsFreshStrict(timestamp, current_modified_time) ==
    timestamp > current_modified_time

\* if entry.timestamp >= current_modified_time
IsFresh(timestamp, current_modified_time) ==
    timestamp >= current_modified_time

\* Mutant of EntryTimestamp: the entry is stamped with the insert time.
EntryTimestampNow(current_modified_time, insert_time) == insert_time

\* CacheEntry { result, timestamp: current_modified_time }
EntryTimestamp(current_modified_time, insert_time) == current_modified_time

\* Mutant of CacheInsert: an entry that is already there is kept.
CacheInsertIfAbsent(c, key, lines, timestamp) ==
    IF key \in DOMAIN c THEN c
    ELSE [k \in DOMAIN c \cup {key} |->
            IF k = key THEN [result |-> lines, timestamp |-> timestamp] ELSE c[k]]

CacheInsert(c, key, lines, timestamp) ==
    [k \in DOMAIN c \cup {key} |->
        IF k = key THEN [result |-> lines, timestamp |-> timestamp] ELSE c[k]]

\* Mutant of clear_cache: the entries are kept.
clear_cache_kept(c) == c

clear_cache(c) == EmptyCache

----------------------------------------------------------------------------
\* QuickAccessManager: the entry points as plans.

map_to_script_type(qa_type) ==
    CASE qa_type = "All" -> "QueryQuickAccess"
      [] qa_type = "RecentFiles" -> "QueryRecentFile"
      [] qa_type = "FrequentFolders" -> "QueryFrequentFolder"

\* validate_path(path, PathType::File | PathType::Directory)
validate_path(path, qa_type) ==
    CASE qa_type = "RecentFiles" -> path \in Files
      [] qa_type = "FrequentFolders" -> path \in Dirs
      [] OTHER -> FALSE

\* item.contains(path) over the paths of the model.
HasPart(item, path) == item = path \/ <<path, item>> \in {<<"f", "f1">>}

\* Mutant of Member: a line that contains the path counts as the path.
MemberContains(path, items) == \E item \in items : HasPart(item, path)

\* Mutant of Member: the pre-check never finds the path.
MemberNever(path, items) == FALSE

\* items.iter().any(|item| item == path)
Member(path, items) == path \in items

\* get_items and check_item: one timed query.
QueryPlan == <<"query">>

\* Mutant of HandlePlan: the combined kind is accepted and only clears.
HandlePlanAllAccepted(op, qa_type, force_update) ==
    CASE qa_type = "RecentFiles" /\ op = "add_item" ->
            <<"validate", "native_add">>
                \o (IF force_update THEN <<"force_update">> ELSE <<>>)
                \o <<"clear">>
      [] qa_type = "All" -> <<"clear">>
      [] OTHER -> <<"validate", "mut_script", "chk_empty", "clear">>

\* Mutant of HandlePlan: the script's output is not looked at.
HandlePlanUnchecked(op, qa_type, force_update) ==
    CASE qa_type = "RecentFiles" /\ op = "add_item" ->
            <<"validate", "native_add">>
                \o (IF force_update THEN <<"force_update">> ELSE <<>>)
                \o <<"clear">>
      [] qa_type = "All" -> <<"unsupported">>
      [] OTHER -> <<"validate", "mut_script", "clear">>

\* handle_operation after the membership pre-check.
HandlePlan(op, qa_type, force_update) ==
    CASE qa_type = "RecentFiles" /\ op = "add_item" ->
            <<"validate", "native_add">>
                \o (IF force_update THEN <<"force_update">> ELSE <<>>)
                \o <<"clear">>
      [] qa_type = "All" -> <<"unsupported">>
      [] OTHER -> <<"validate", "mut_script", "chk_empty", "clear">>

AddItemPlan(qa_type, force_update) ==
    <<"query", "chk_absent">> \o HandlePlan("add_item", qa_type, force_update)

RemoveItemPlan(qa_type) ==
    <<"query", "chk_present">> \o HandlePlan("remove_item", qa_type, FALSE)

\* The match arm of empty_items for one category.
EmptyArm(qa_type, also_system_default) ==
    IF qa_type = "RecentFiles"
    THEN <<"api_recent">>
    ELSE <<"jumplist">>
            \o (IF also_system_default THEN <<"sysdef_sync">> ELSE <<>>)
            \o <<"pinned">>

\* Mutant of EmptyTail: empty_items does not clear the cache.
EmptyTailNoClear(force_refresh) ==
    IF force_refresh THEN <<"refresh">> ELSE <<>>

\* What follows the match: clear_cache, then the refresh when asked for.
EmptyTail(force_refresh) ==
    <<"clear">> \o (IF force_refresh THEN <<"refresh">> ELSE <<>>)

\* Mutant of EmptyItemsPlan: the combined kind empties the frequent folders
\* first.
EmptyItemsPlanFrequentFirst(qa_type, force_refresh, also_system_default) ==
    IF qa_type = "All"
    THEN EmptyArm("FrequentFolders", also_system_default)
            \o EmptyTail(force_refresh)
            \o EmptyArm("RecentFiles", also_system_default)
            \o EmptyTail(force_refresh)
            \o EmptyTail(force_refresh)
    ELSE EmptyArm(qa_type, also_system_default) \o EmptyTail(force_refresh)

\* empty_items: a single kind is its arm and the tail; the combined kind is
\* the whole of empty_items(RecentFiles), then of empty_items(FrequentFolders),
\* each with "?", then its own tail.
EmptyItemsPlan(qa_type, force_refresh, also_system_default) ==
    IF qa_type = "All"
    THEN EmptyArm("RecentFiles", also_system_default) \o EmptyTail(force_refresh)
            \o EmptyArm("FrequentFolders", also_system_default)
            \o EmptyTail(force_refresh)
            \o EmptyTail(force_refresh)
    ELSE EmptyArm(qa_type, also_system_default) \o EmptyTail(force_refresh)

\* get_or_init(|| FeasibilityStatus::check(..)), then (status.query, status.handle).
CheckFeasiblePlan == <<"cell_get", "probeQ", "probeH", "cell_set", "cell_read">>

\* The steps that run a script, and the script each runs.
ExecInstrs ==
    {"query", "mut_script", "pinned", "sysdef_sync", "refresh", "probeQ",
     "probeH", "raw"}

InstrScript(instr, call) ==
    CASE instr = "query" -> map_to_script_type(call.qa)
      [] instr = "mut_script" ->
            IF call.op = "add_item" THEN "PinToFrequentFolder"
            ELSE IF call.qa = "RecentFiles" THEN "RemoveRecentFile"
            ELSE "UnpinFromFrequentFolder"
      [] instr \in {"pinned", "sysdef_sync"} -> "EmptyPinnedFolders"
      [] instr = "refresh" -> "RefreshExplorer"
      [] instr = "probeQ" -> "CheckQueryFeasible"
      [] instr = "probeH" -> "CheckPinUnpinFeasible"
      [] OTHER -> call.script

InstrParam(instr, call) == IF instr = "mut_script" THEN call.path ELSE NoPath

\* Mutant of InstrTimed: no launch is wrapped in a timeout.
InstrTimedNever(instr) == FALSE

\* Whether the launch sits inside tokio::time::timeout.
InstrTimed(instr) == instr \notin {"refresh", "sysdef_sync"}

\* Whether the launch goes through CachedScriptExecutor::execute.
InstrCached(instr) == instr \notin {"sysdef_sync", "raw"}

\* Whether the launch goes through execute_ps_script_async, which hands
\* execute_ps_script to spawn_blocking; empty_system_default_folders_with_script
\* calls execute_ps_script itself.
InstrOffloaded(instr) == instr # "sysdef_sync"

MutatingScripts ==
    {"RemoveRecentFile", "PinToFrequentFolder", "UnpinFromFrequentFolder",
     "EmptyPinnedFolders"}

IsMutating(call) == call.op \in {"add_item", "remove_item", "empty_items"}

----------------------------------------------------------------------------
\* What the manager's runs leave alone: an empty script store with no resolve
\* under way, and no pure function applied.

\* Processes using the script store.
Procs == {"p1", "p2"}

\* Versions (CARGO_PKG_VERSION) a process can be built with.
Versions == {"v1", "v2"}

\* Option<&str>: None, Some(p).
None == [some |-> FALSE, val |-> <<>>]
Some(p) == [some |-> TRUE, val |-> p]

NoFiles == [f \in {} |-> <<>>]

NoScriptPath == [dir |-> "-", parts |-> <<>>, ext |-> "-"]

\* A resolve's result: Ok(script_path) or an error.
OkPath(path) == [ok |-> TRUE, path |-> path, err |-> ""]
ErrPath(e) == [ok |-> FALSE, path |-> NoScriptPath, err |-> e]
NoRet == [ok |-> FALSE, path |-> NoScriptPath, err |-> "none"]

\* The arguments of a process that resolves nothing.
NoJob == [script_type |-> "-", parameter |-> None]

\* version: SCRIPT_VERSION of the binary; script_type, parameter: the
\* arguments of this process's resolves; text: the generated content; live:
\* the File handle still names the file at the path; swept: how this call's
\* sweep went; absentAtStart: no file at the path when the call began;
\* again: the process's previous resolve returned Ok.
IdleProc(v, c) ==
    [version |-> v, pc |-> "idle", script_type |-> c.script_type,
     parameter |-> c.parameter, text |-> <<>>, live |-> FALSE, ret |-> NoRet,
     swept |-> "none", absentAtStart |-> FALSE, again |-> FALSE]

StorageIdle ==
    /\ files = NoFiles
    /\ clock = 0
    /\ proc = [p \in Procs |-> IdleProc("v1", NoJob)]

NoArg == [fn |-> "none"]
NoGot == [fn |-> "none"]

PureIdle == arg = NoArg /\ got = NoGot

----------------------------------------------------------------------------
\* Initial state: a fresh manager (QuickAccessManager::new) on a machine whose
\* lists and jump-list files are in any state.

Init ==
    /\ now = 0
    /\ profile \in Profiles
    /\ recentMtime \in (IF UsesRecent(profile) THEN {Absent, 0} ELSE {0})
    /\ frequentMtime \in (IF UsesFrequent(profile) THEN {Absent, 0} ELSE {0})
    /\ recent \in (IF UsesRecent(profile) THEN SUBSET Files ELSE {{}})
    /\ frequent \in (IF UsesFrequent(profile) THEN SUBSET Dirs ELSE {{}})
    /\ cache = EmptyCache
    /\ feasibility = Uninit
    /\ initBy = NoTask
    /\ task = [t \in Tasks |-> IdleTask]
    /\ hist = [t \in Tasks |-> NoHist]
    /\ probeRuns = [s \in {"CheckQueryFeasible", "CheckPinUnpinFeasible"} |-> 0]
    /\ lastMut = NoMut
    /\ abandoned = NoRun
    /\ StorageIdle
    /\ PureIdle

\* A manager nobody calls, for the runs of the script store and of the pure
\* functions.
ManagerIdle ==
    /\ now = 0
    /\ profile = "script"
    /\ recentMtime = 0
    /\ frequentMtime = 0
    /\ recent = {}
    /\ frequent = {}
    /\ cache = EmptyCache
    /\ feasibility = Uninit
    /\ initBy = NoTask
    /\ task = [t \in Tasks |-> IdleTask]
    /\ hist = [t \in Tasks |-> NoHist]
    /\ probeRuns = [s \in {"CheckQueryFeasible", "CheckPinUnpinFeasible"} |-> 0]
    /\ lastMut = NoMut
    /\ abandoned = NoRun

----------------------------------------------------------------------------
\* Moving along a plan.

Head1(plan) == IF plan = <<>> THEN "end" ELSE Head(plan)

\* The value an entry point returns when its plan ran to the end.
RetValue(tk) ==
    CASE tk.call.op = "get_items" -> OkRes(tk.res.val)
      [] tk.call.op = "check_item" -> OkRes(Member(tk.call.path, tk.res.val))
      [] OTHER -> OkRes({})

Advance(tk) ==
    IF Tail(tk.plan) = <<>>
    THEN [tk EXCEPT !.pc = "done", !.plan = <<>>, !.ret = RetValue(tk)]
    ELSE [tk EXCEPT !.pc = "ready", !.plan = Tail(tk.plan)]

\* The "?" operator on an error.
Abort(tk, e) == [tk EXCEPT !.pc = "done", !.plan = <<>>, !.ret = ErrRes(e)]

\* Mutant of Resume: a probe's error is propagated like any other.
ResumePropagate(tk, instr, r) ==
    IF r.ok
    THEN Advance([tk EXCEPT !.res = r, !.out = NoOut,
                            !.probe.query = @ \/ instr = "probeQ",
                            !.probe.handle = @ \/ instr = "probeH"])
    ELSE Abort([tk EXCEPT !.out = NoOut], r.err)

\* What the caller of an execute does with its result: a probe turns it into
\* a flag, everything else propagates an error and keeps the lines.
Resume(tk, instr, r) ==
    CASE instr = "probeQ" -> Advance([tk EXCEPT !.probe.query = r.ok, !.out = NoOut])
      [] instr = "probeH" -> Advance([tk EXCEPT !.probe.handle = r.ok, !.out = NoOut])
      [] OTHER ->
            IF r.ok THEN Advance([tk EXCEPT !.res = r, !.out = NoOut])
            ELSE Abort([tk EXCEPT !.out = NoOut], r.err)

SetTask(t, tk) == task' = [task EXCEPT ![t] = tk]

Begin(t, call, plan) ==
    /\ task[t].pc = "idle"
    /\ SetTask(t, [IdleTask EXCEPT !.pc = "ready", !.call = call, !.plan = plan])
    /\ hist' = [hist EXCEPT ![t] = [NoHist EXCEPT !.feasAtStart = feasibility]]
    /\ UNCHANGED <<envVars, cache, feasibility, initBy, probeRuns, lastMut>>

----------------------------------------------------------------------------
\* Entry points of QuickAccessManager (and ScriptExecutor::execute_with_timeout).

CallGetItems(t) ==
    \E qa \in ProfileKinds(profile) :
        Begin(t, [NoCall EXCEPT !.op = "get_items", !.qa = qa], QueryPlan)

CallCheckItem(t) ==
    \E qa \in ProfileKinds(profile), path \in Paths \cup PartPaths :
        /\ t \in Writers /\ profile # "feas"
        /\ Begin(t, [NoCall EXCEPT !.op = "check_item", !.qa = qa,
                                   !.path = path],
                 QueryPlan)

CallAddItem(t) ==
    \E qa \in ProfileKinds(profile), path \in Paths, force \in BOOLEAN :
        /\ t \in Writers /\ profile # "feas"
        /\ Begin(t, [NoCall EXCEPT !.op = "add_item", !.qa = qa, !.path = path,
                                   !.force = force],
                 AddItemPlan(qa, force))

CallRemoveItem(t) ==
    \E qa \in ProfileKinds(profile), path \in Paths :
        /\ t \in Writers
        /\ Begin(t, [NoCall EXCEPT !.op = "remove_item", !.qa = qa, !.path = path],
                 RemoveItemPlan(qa))

CallEmptyItems(t) ==
    \E qa \in ProfileKinds(profile), refresh \in BOOLEAN, sysdef \in BOOLEAN :
        /\ t \in Writers /\ profile # "feas"
        /\ Begin(t, [NoCall EXCEPT !.op = "empty_items", !.qa = qa,
                                   !.refresh = refresh, !.sysdef = sysdef],
                 EmptyItemsPlan(qa, refresh, sysdef))

CallCheckFeasible(t) ==
    /\ profile = "feas"
    /\ Begin(t, [NoCall EXCEPT !.op = "check_feasible"], CheckFeasiblePlan)

CallClearCache(t) ==
    /\ profile \notin {"feas", "script"}
    /\ Begin(t, [NoCall EXCEPT !.op = "clear_cache"], <<"clear">>)

CallScriptExecute(t) ==
    \E script \in {"RefreshExplorer", "QueryRecentFile"} :
        /\ t \in Writers /\ profile = "script"
        /\ Begin(t, [NoCall EXCEPT !.op = "execute_with_timeout",
                                   !.script = script],
                 <<"raw">>)

\* The caller takes the result; the task is free for its next call.
Return(t) ==
    /\ task[t].pc = "done"
    /\ SetTask(t, IdleTask)
    /\ hist' = [hist EXCEPT ![t] = NoHist]
    /\ UNCHANGED <<envVars, cache, feasibility, initBy, probeRuns, lastMut>>

----------------------------------------------------------------------------
\* CachedScriptExecutor::execute and ScriptExecutor::execute_ps_script(_async).

CurInstr(t) == Head1(task[t].plan)
CurScript(t) == InstrScript(CurInstr(t), task[t].call)
CurKey(t) == CacheKey(CurScript(t), InstrParam(CurInstr(t), task[t].call))
UsesCache(t) == InstrCached(CurInstr(t)) /\ should_cache(CurScript(t))

Bump(n) == IF n < MaxCount THEN n + 1 ELSE n

\* spawn_blocking(execute_ps_script): the interpreter is started.
Launch(t, served) ==
    /\ SetTask(t, [task[t] EXCEPT !.pc = "running"])
    /\ hist' = [hist EXCEPT ![t] =
            [@ EXCEPT !.launches = @ + 1,
                      !.mutated = @ \/ CurScript(t) \in MutatingScripts,
                      !.served = served]]
    /\ probeRuns' =
            IF CurScript(t) \in DOMAIN probeRuns
            THEN [probeRuns EXCEPT ![CurScript(t)] = Bump(@)]
            ELSE probeRuns

\* Mutant of GuardedPcs: one guard is taken at the lookup and kept until the
\* insert, across the await on the subprocess.
GuardedPcsAcrossRun == {"running", "exited"}

\* The positions at which a task rests inside a block that holds the
\* MutexGuard of the cache. The three blocks (lookup, insert, clear_cache)
\* contain no await and each is one step here, so there is none.
GuardedPcs == {}

\* self.cache.lock(): no other task is inside a guarded block.
LockFree(t) == \A u \in Tasks \ {t} : task[u].pc \notin GuardedPcs

\* A query: QuickAccessDataFiles::new() and get_modified_time_for_script.
Observe(t) ==
    /\ task[t].pc = "ready" /\ CurInstr(t) \in ExecInstrs /\ UsesCache(t)
    /\ SetTask(t, [task[t] EXCEPT !.pc = "observed",
                                  !.cur = get_modified_time_for_script(CurScript(t))])
    /\ UNCHANGED <<envVars, cache, feasibility, initBy, hist, probeRuns, lastMut>>

\* The recent folder or the file's metadata cannot be read: Err(Io) by "?".
ObserveFail(t) ==
    /\ task[t].pc = "ready" /\ CurInstr(t) \in ExecInstrs /\ UsesCache(t)
    /\ SetTask(t, Abort(task[t], "Io"))
    /\ UNCHANGED <<envVars, cache, feasibility, initBy, hist, probeRuns, lastMut>>

\* A non-query kind bypasses the cache; so do the direct ScriptExecutor calls.
LaunchUncached(t) ==
    /\ task[t].pc = "ready" /\ CurInstr(t) \in ExecInstrs /\ ~UsesCache(t)
    /\ Launch(t, hist[t].served)
    /\ UNCHANGED <<envVars, cache, feasibility, initBy, lastMut>>

\* The cache check under the lock: a fresh entry is returned, otherwise the
\* script is launched.
Lookup(t) ==
    /\ task[t].pc = "observed"
    /\ LockFree(t)
    /\ IF /\ CurKey(t) \in DOMAIN cache
          /\ IsFresh(cache[CurKey(t)].timestamp, task[t].cur)
       THEN /\ SetTask(t, Advance([task[t] EXCEPT
                                    !.res = OkRes(cache[CurKey(t)].result)]))
            /\ hist' = [hist EXCEPT ![t].served = "cache"]
            /\ UNCHANGED probeRuns
       ELSE Launch(t, IF CurKey(t) \in DOMAIN cache THEN "refresh" ELSE "fresh")
    /\ UNCHANGED <<envVars, cache, feasibility, initBy, lastMut>>

\* What a script prints when it exits successfully.
ScriptLines(script) ==
    CASE script = "QueryRecentFile" -> {recent}
      [] script = "QueryFrequentFolder" -> {frequent}
      [] script = "QueryQuickAccess" -> {recent \cup frequent}
      [] OTHER -> {{}, {Msg}}

\* What a script does to the lists when it exits successfully.
RecentAfter(script, path) ==
    IF script = "RemoveRecentFile" THEN recent \ {path} ELSE recent

FrequentAfter(script, path) ==
    CASE script = "PinToFrequentFolder" -> frequent \cup {path}
      [] script = "UnpinFromFrequentFolder" -> frequent \ {path}
      [] script = "EmptyPinnedFolders" -> {}
      [] OTHER -> frequent

\* Explorer rewrites a jump-list file now, or has not done so yet.
Touched(mtime) == {mtime, now}

\* A change of the recent list: it ends what lastMut recorded, and only the
\* task that made it still has its own mutation intact.
RecentChangedBy(owner) ==
    /\ lastMut' = NoMut
    /\ hist' = [t \in Tasks |-> [hist[t] EXCEPT !.clean = (t = owner)]]

\* The blocking run ends: the interpreter could not be started (no script
\* file, no powershell), or it exits with an error and no effect, or with
\* status 0, its effect on the lists and its output.
ProcExit(t) ==
    /\ task[t].pc = "running"
    /\ \/ /\ \E exit \in {"nolaunch", "fail"} :
                SetTask(t, [task[t] EXCEPT !.pc = "exited",
                                           !.out = [exit |-> exit, lines |-> {}]])
          /\ UNCHANGED <<envVars, hist, lastMut>>
       \/ /\ \E lines \in ScriptLines(CurScript(t)) :
                SetTask(t, [task[t] EXCEPT !.pc = "exited",
                                           !.out = [exit |-> "ok", lines |-> lines]])
          /\ recent' = RecentAfter(CurScript(t), task[t].call.path)
          /\ frequent' = FrequentAfter(CurScript(t), task[t].call.path)
          /\ IF CurScript(t) = "RemoveRecentFile"
             THEN recentMtime' \in Touched(recentMtime) /\ RecentChangedBy(t)
             ELSE UNCHANGED <<recentMtime, hist, lastMut>>
          /\ IF CurScript(t) \in MutatingScripts \ {"RemoveRecentFile"}
             THEN frequentMtime' \in Touched(frequentMtime)
             ELSE UNCHANGED frequentMtime
          /\ UNCHANGED <<otherVars, abandoned, profile, now>>
    /\ UNCHANGED <<cache, feasibility, initBy, probeRuns>>

\* execute_ps_script: Err when the script path or the spawn failed, else the
\* Output whatever its exit status.
execute_ps_script(output) ==
    IF output.exit = "nolaunch"
    THEN [ok |-> FALSE, val |-> NoOut, err |-> "PowerShellExecution"]
    ELSE [ok |-> TRUE, val |-> output, err |-> ""]

\* execute_ps_script(..)? then parse_output_to_strings: the lines of a run
\* that exited with status 0, an execution error otherwise.
parse_output_to_strings(output) ==
    IF output.exit = "ok" THEN OkRes(output.lines) ELSE ErrRes("PowerShellExecution")

\* Mutant of Stores: the entry is written whatever the run's result.
StoresAlways(r) == TRUE

\* The "?" on the run and on the parse come before the insert: only an Ok
\* result gets as far as cache.insert.
Stores(r) == r.ok

\* The await returns with the Output: parse it, store a query's lines, go on.
ExecFinish(t) ==
    /\ task[t].pc = "exited"
    /\ LET r == parse_output_to_strings(task[t].out) IN
        IF CurInstr(t) = "raw"
        THEN /\ SetTask(t, [task[t] EXCEPT !.pc = "done", !.plan = <<>>,
                                          !.ret = execute_ps_script(task[t].out)])
             /\ UNCHANGED cache
        ELSE /\ (UsesCache(t) /\ Stores(r)) => LockFree(t)
             /\ SetTask(t, Resume(task[t], CurInstr(t), r))
             /\ cache' =
                    IF UsesCache(t) /\ Stores(r)
                    THEN CacheInsert(cache, CurKey(t), r.val,
                                     EntryTimestamp(task[t].cur, now))
                    ELSE cache
    /\ UNCHANGED <<envVars, feasibility, initBy, hist, probeRuns, lastMut>>

\* tokio::time::timeout polls the execution first: the timer wins only while
\* the interpreter has not exited.
CanTimeout(t) == task[t].pc = "running" /\ InstrTimed(CurInstr(t))

\* The runs of two callers on one executor follow the interpreter a timed-out
\* query leaves behind up to its exit (the latest one, if there are several);
\* elsewhere what it still does is part of the environment.
TracksAbandoned == profile = "both"

\* Err(_) of tokio::time::timeout: the execute future is dropped where it
\* awaits; the spawn_blocking thread with the interpreter runs on.
TimeoutFire(t) ==
    /\ CanTimeout(t)
    /\ SetTask(t, Resume(task[t], CurInstr(t), ErrRes("Timeout")))
    /\ abandoned' =
            IF TracksAbandoned /\ UsesCache(t)
            THEN [key |-> CurKey(t), cur |-> task[t].cur]
            ELSE abandoned
    /\ UNCHANGED <<otherVars, profile, now, recentMtime, frequentMtime, recent, frequent,
                   cache, feasibility, initBy, hist, probeRuns, lastMut>>

\* Mutant of DroppedFuture: the timed-out execute is detached instead and
\* runs on to its insert block.
DetachedFuture(c, run, lines) == CacheInsert(c, run.key, lines, run.cur)

\* What the exit of an abandoned run does to the cache: the future that
\* would have parsed and inserted its output was dropped, the JoinHandle with
\* it, so the Output is discarded.
DroppedFuture(c, run, lines) == c

\* The abandoned interpreter exits.
AbandonedExit ==
    /\ abandoned # NoRun
    /\ \E lines \in ScriptLines(abandoned.key[1]) :
            cache' = DroppedFuture(cache, abandoned, lines)
    /\ abandoned' = NoRun
    /\ UNCHANGED <<otherVars, profile, now, recentMtime, frequentMtime, recent, frequent,
                   feasibility, initBy, task, hist, probeRuns, lastMut>>

----------------------------------------------------------------------------
\* The synchronous statements of add_item, remove_item, handle_operation,
\* empty_items and check_feasible.

At(t, instr) == task[t].pc = "ready" /\ CurInstr(t) = instr

\* add_item: if self.check_item(..)? { return Err(AlreadyExists) }
ChkAbsent(t) ==
    /\ At(t, "chk_absent")
    /\ SetTask(t, IF Member(task[t].call.path, task[t].res.val)
                  THEN Abort(task[t], "AlreadyExists")
                  ELSE Advance(task[t]))
    /\ hist' = [hist EXCEPT ![t].pre =
            IF task[t].call.path \in task[t].res.val THEN "present" ELSE "absent"]
    /\ UNCHANGED <<envVars, cache, feasibility, initBy, probeRuns, lastMut>>

\* remove_item: if !self.check_item(..)? { return Err(NotInRecent) }
ChkPresent(t) ==
    /\ At(t, "chk_present")
    /\ SetTask(t, IF ~Member(task[t].call.path, task[t].res.val)
                  THEN Abort(task[t], "NotInRecent")
                  ELSE Advance(task[t]))
    /\ hist' = [hist EXCEPT ![t].pre =
            IF task[t].call.path \in task[t].res.val THEN "present" ELSE "absent"]
    /\ UNCHANGED <<envVars, cache, feasibility, initBy, probeRuns, lastMut>>

\* The "_ =>" arm for QuickAccess::All.
Unsupported(t) ==
    /\ At(t, "unsupported")
    /\ SetTask(t, Abort(task[t], "UnsupportedOperation"))
    /\ UNCHANGED <<envVars, cache, feasibility, initBy, hist, probeRuns, lastMut>>

\* handle_operation: validate_path(path, path_type)?
Validate(t) ==
    /\ At(t, "validate")
    /\ SetTask(t, IF validate_path(task[t].call.path, task[t].call.qa)
                  THEN Advance(task[t])
                  ELSE Abort(task[t], "InvalidPath"))
    /\ UNCHANGED <<envVars, cache, feasibility, initBy, hist, probeRuns, lastMut>>

\* add_file_to_recent_with_api: CoInitializeEx fails, or SHAddToRecentDocs runs.
NativeAdd(t) ==
    /\ At(t, "native_add")
    /\ \/ /\ SetTask(t, Abort(task[t], "WindowsApi"))
          /\ UNCHANGED <<envVars, hist, lastMut>>
       \/ /\ SetTask(t, Advance(task[t]))
          /\ recent' = recent \cup {task[t].call.path}
          /\ recentMtime' \in Touched(recentMtime)
          /\ lastMut' = NoMut
          /\ hist' = [u \in Tasks |->
                [hist[u] EXCEPT !.clean = (u = t),
                                !.mutated = IF u = t THEN TRUE ELSE @]]
          /\ UNCHANGED <<otherVars, abandoned, profile, now, frequentMtime, frequent>>
    /\ UNCHANGED <<cache, feasibility, initBy, probeRuns>>

\* force_update: QuickAccessDataFiles::new()? fails or remove_recent_file()?
\* fails, or the backing file of the recent files is taken away.
ForceUpdate(t) ==
    /\ At(t, "force_update")
    /\ \/ /\ SetTask(t, Abort(task[t], "Io"))
          /\ UNCHANGED recentMtime
       \/ /\ SetTask(t, Advance(task[t]))
          /\ recentMtime' = Absent
    /\ UNCHANGED <<otherVars, abandoned, profile, now, frequentMtime, recent, frequent, cache, feasibility,
                   initBy, hist, probeRuns, lastMut>>

\* handle_operation: if !result.is_empty() { return Err(ScriptFailed) }
ChkEmpty(t) ==
    /\ At(t, "chk_empty")
    /\ SetTask(t, IF task[t].res.val # {}
                  THEN Abort(task[t], "ScriptFailed")
                  ELSE Advance(task[t]))
    /\ UNCHANGED <<envVars, cache, feasibility, initBy, hist, probeRuns, lastMut>>

\* A successful add_item or remove_item on the recent files returns here.
Confirms(t) ==
    /\ task[t].plan = <<"clear">>
    /\ task[t].call.op \in {"add_item", "remove_item"}
    /\ task[t].call.qa = "RecentFiles"
    /\ hist[t].clean

\* self.executor.clear_cache()
Clear(t) ==
    /\ At(t, "clear")
    /\ LockFree(t)
    /\ cache' = clear_cache(cache)
    /\ SetTask(t, Advance(task[t]))
    /\ lastMut' =
            IF Confirms(t)
            THEN [path |-> task[t].call.path,
                  present |-> task[t].call.op = "add_item"]
            ELSE lastMut
    /\ UNCHANGED <<envVars, feasibility, initBy, hist, probeRuns>>

\* empty_recent_files_with_api: SHAddToRecentDocs(SHARD_PATHW, None).
ApiRecent(t) ==
    /\ At(t, "api_recent")
    /\ \/ /\ SetTask(t, Abort(task[t], "WindowsApi"))
          /\ UNCHANGED <<envVars, hist, lastMut>>
       \/ /\ SetTask(t, Advance(task[t]))
          /\ recent' = {}
          /\ recentMtime' \in Touched(recentMtime)
          /\ lastMut' = NoMut
          /\ hist' = [u \in Tasks |->
                [hist[u] EXCEPT !.clean = FALSE,
                                !.mutated = IF u = t THEN TRUE ELSE @]]
          /\ UNCHANGED <<otherVars, abandoned, profile, now, frequentMtime, frequent>>
    /\ UNCHANGED <<cache, feasibility, initBy, probeRuns>>

\* empty_user_folders_with_jumplist_file: the recent folder is not found or
\* remove_file fails, or the frequent folders' jump list is gone and the
\* folders that were not pinned with it.
Jumplist(t) ==
    /\ At(t, "jumplist")
    /\ \/ /\ SetTask(t, Abort(task[t], "Io"))
          /\ UNCHANGED <<envVars, hist>>
       \/ /\ SetTask(t, Advance(task[t]))
          /\ frequentMtime' = Absent
          /\ frequent' \in SUBSET frequent
          /\ hist' = [hist EXCEPT ![t].mutated = TRUE]
          /\ UNCHANGED <<otherVars, abandoned, profile, now, recentMtime, recent>>
    /\ UNCHANGED <<cache, feasibility, initBy, probeRuns, lastMut>>

\* Mutant of NeedsInit: the cell is initialised again by every call.
NeedsInitAlways(cell) == TRUE

\* OnceCell::get_or_init runs the closure only while the cell is empty.
NeedsInit(cell) == ~cell.known

\* get_or_init: the value is there; or the permit is free and this call takes
\* it and runs FeasibilityStatus::check; or another call holds the permit and
\* this one waits.
CellGet(t) ==
    /\ At(t, "cell_get")
    /\ IF NeedsInit(feasibility)
       THEN /\ initBy = NoTask
            /\ initBy' = t
            /\ SetTask(t, Advance(task[t]))
       ELSE /\ SetTask(t, [task[t] EXCEPT !.plan = <<"cell_read">>])
            /\ UNCHANGED initBy
    /\ UNCHANGED <<envVars, cache, feasibility, hist, probeRuns, lastMut>>

\* The closure's FeasibilityStatus is stored and the permit released.
CellSet(t) ==
    /\ At(t, "cell_set")
    /\ feasibility' = [known |-> TRUE, query |-> task[t].probe.query,
                       handle |-> task[t].probe.handle]
    /\ initBy' = NoTask
    /\ SetTask(t, Advance(task[t]))
    /\ UNCHANGED <<envVars, cache, hist, probeRuns, lastMut>>

\* (status.query, status.handle)
CellRead(t) ==
    /\ At(t, "cell_read")
    /\ SetTask(t, [task[t] EXCEPT !.pc = "done", !.plan = <<>>,
                                  !.ret = OkRes(<<feasibility.query,
                                                  feasibility.handle>>)])
    /\ UNCHANGED <<envVars, cache, feasibility, initBy, hist, probeRuns, lastMut>>

----------------------------------------------------------------------------
\* The environment: the clock, and Explorer and other programs changing the
\* lists out of band (an abandoned interpreter of a timed-out call included).

Tick ==
    /\ now < MaxTime
    /\ now' = now + 1
    /\ UNCHANGED <<otherVars, abandoned, profile, recentMtime, frequentMtime, recent, frequent, cache,
                   feasibility, initBy, task, hist, probeRuns, lastMut>>

ExternalRecent ==
    /\ UsesRecent(profile)
    /\ \E f \in Files :
        recent' = IF f \in recent THEN recent \ {f} ELSE recent \cup {f}
    /\ recentMtime' \in Touched(recentMtime)
    /\ RecentChangedBy(NoTask)
    /\ UNCHANGED <<otherVars, abandoned, profile, now, frequentMtime, frequent, cache, feasibility, initBy,
                   task, probeRuns>>

ExternalFrequent ==
    /\ UsesFrequent(profile)
    /\ \E d \in Dirs :
        frequent' = IF d \in frequent THEN frequent \ {d} ELSE frequent \cup {d}
    /\ frequentMtime' \in Touched(frequentMtime)
    /\ UNCHANGED <<otherVars, abandoned, profile, now, recentMtime, recent, cache, feasibility, initBy, task,
                   hist, probeRuns, lastMut>>

----------------------------------------------------------------------------
\* Specifications.

Env == Tick \/ ExternalRecent \/ ExternalFrequent

Calls(t) ==
    \/ CallGetItems(t)
    \/ CallCheckItem(t)
    \/ CallAddItem(t)
    \/ CallRemoveItem(t)
    \/ CallEmptyItems(t)
    \/ CallCheckFeasible(t)
    \/ CallClearCache(t)
    \/ CallScriptExecute(t)
    \/ Return(t)

Steps(t) ==
    \/ Observe(t)
    \/ ObserveFail(t)
    \/ LaunchUncached(t)
    \/ Lookup(t)
    \/ ProcExit(t)
    \/ ExecFinish(t)
    \/ TimeoutFire(t)
    \/ ChkAbsent(t)
    \/ ChkPresent(t)
    \/ Unsupported(t)
    \/ Validate(t)
    \/ NativeAdd(t)
    \/ ForceUpdate(t)
    \/ ChkEmpty(t)
    \/ Clear(t)
    \/ ApiRecent(t)
    \/ Jumplist(t)
    \/ CellGet(t)
    \/ CellSet(t)
    \/ CellRead(t)

\* One caller, each call made after the previous one returned.
Next == Env \/ \E t \in SeqTasks : Calls(t) \/ Steps(t)

Spec == Init /\ [][Next]_vars

\* One caller; an armed timer fires unless the awaited run finishes, and a
\* future whose run has finished is polled.
FairSpec ==
    /\ Init /\ [][Next]_vars
    /\ \A t \in SeqTasks : WF_vars(TimeoutFire(t)) /\ WF_vars(ExecFinish(t))

\* One caller whose statements all get their turn and whose interpreters all
\* exit or are timed out.
LiveSpec ==
    /\ Init /\ [][Next]_vars
    /\ \A t \in SeqTasks : WF_vars(Steps(t))

\* Two callers in flight on one manager that use check_feasible, get_items
\* and remove_item on the recent files; nothing else touches the lists.
ConcInit == Init /\ profile = "feas"

ConcNext ==
    \/ Tick
    \/ \E t \in Tasks :
        \/ CallGetItems(t)
        \/ CallRemoveItem(t)
        \/ CallCheckFeasible(t)
        \/ Return(t)
        \/ Observe(t)
        \/ ObserveFail(t)
        \/ LaunchUncached(t)
        \/ Lookup(t)
        \/ ProcExit(t)
        \/ ExecFinish(t)
        \/ TimeoutFire(t)
        \/ ChkPresent(t)
        \/ Validate(t)
        \/ ChkEmpty(t)
        \/ Clear(t)
        \/ CellGet(t)
        \/ CellSet(t)
        \/ CellRead(t)

ConcSpec == ConcInit /\ [][ConcNext]_vars

\* The same two callers over a recent-files jump list that exists with
\* modification time 0: the time only moves forward, so while it reads 0 no
\* mutation has changed it.
RaceInit == ConcInit /\ recentMtime = 0

RaceSpec == RaceInit /\ [][ConcNext]_vars

\* Two callers that share one executor for queries of two kinds and for
\* clear_cache, while Explorer changes the recent files.
SharedInit ==
    /\ now = 0
    /\ profile = "both"
    /\ recentMtime \in {Absent, 0}
    /\ frequentMtime = 0
    /\ recent \in SUBSET Files
    /\ frequent = {}
    /\ cache = EmptyCache
    /\ feasibility = Uninit
    /\ initBy = NoTask
    /\ task = [t \in Tasks |-> IdleTask]
    /\ hist = [t \in Tasks |-> NoHist]
    /\ probeRuns = [s \in {"CheckQueryFeasible", "CheckPinUnpinFeasible"} |-> 0]
    /\ lastMut = NoMut
    /\ abandoned = NoRun
    /\ StorageIdle
    /\ PureIdle

SharedNext ==
    \/ Tick
    \/ ExternalRecent
    \/ AbandonedExit
    \/ \E t \in Tasks :
        \/ CallGetItems(t)
        \/ CallClearCache(t)
        \/ Return(t)
        \/ Observe(t)
        \/ ObserveFail(t)
        \/ Lookup(t)
        \/ ProcExit(t)
        \/ ExecFinish(t)
        \/ TimeoutFire(t)
        \/ Clear(t)

SharedSpec == SharedInit /\ [][SharedNext]_vars

----------------------------------------------------------------------------
\* Properties of the cache.

\* The entry the cache holds for the query a task is at.
HasEntry(t) == CurKey(t) \in DOMAIN cache
Entry(t) == cache[CurKey(t)]

\* A task takes a step of its own out of the given position.
StepsFrom(t, pc) == task[t].pc = pc /\ task'[t] # task[t]

\* C1: in CachedScriptExecutor::execute for a query kind, the call goes on
\* without a launch (the stored entry is returned) only when an entry exists
\* whose timestamp is >= the modification time the call observed; whenever the
\* observed time is strictly greater than the entry's timestamp the call
\* launches the script.
C1_ServedOnlyWhenFresh ==
    [][\A t \in Tasks :
        StepsFrom(t, "observed") =>
            /\ task'[t].pc # "running" =>
                    HasEntry(t) /\ Entry(t).timestamp >= task[t].cur
            /\ HasEntry(t) /\ task[t].cur > Entry(t).timestamp =>
                    /\ task'[t].pc = "running"
                    /\ hist'[t].launches = hist[t].launches + 1]_vars

\* A call found an entry older than the time it observed and runs the script.
C1_StaleEntryRelaunched ==
    \E t \in Tasks :
        /\ task[t].pc = "running" /\ hist[t].served = "refresh"
        /\ HasEntry(t) /\ Entry(t).timestamp < task[t].cur

\* C2: when the cache holds an entry for the query's key whose timestamp is
\* >= the observed modification time, execute returns exactly the stored
\* lines, launches no subprocess and leaves the cache unchanged.
C2_HitReturnsStored ==
    [][\A t \in Tasks :
        (StepsFrom(t, "observed") /\ HasEntry(t)
            /\ Entry(t).timestamp >= task[t].cur) =>
            /\ task'[t].res = OkRes(Entry(t).result)
            /\ task'[t].pc # "running"
            /\ hist'[t].launches = hist[t].launches
            /\ cache' = cache]_vars

\* get_items returned the stored lines of an entry without any launch.
C2_HitWithoutLaunch ==
    \E t \in Tasks :
        /\ task[t].pc = "done" /\ task[t].call.op = "get_items"
        /\ hist[t].served = "cache" /\ hist[t].launches = 0
        /\ task[t].ret.ok
        /\ task[t].ret.val = cache[CacheKey(map_to_script_type(task[t].call.qa), NoPath)].result

\* C3: get_items(RecentFiles) on an empty cache, or on an entry older than
\* the backing modification time it observes, runs the script; the run's
\* output is the recent list at that moment; the call returns that output and
\* stores it under the observed modification time, replacing the entry.
C3_MissRunsAndStores ==
    [][\A t \in Tasks :
        (task[t].call.op = "get_items" /\ task[t].call.qa = "RecentFiles") =>
            /\ (StepsFrom(t, "observed")
                    /\ (~HasEntry(t) \/ Entry(t).timestamp < task[t].cur)) =>
                    task'[t].pc = "running"
            /\ (StepsFrom(t, "running") /\ task'[t].out.exit = "ok") =>
                    task'[t].out.lines = recent
            /\ (StepsFrom(t, "exited") /\ task[t].out.exit = "ok") =>
                    /\ task'[t].pc = "done"
                    /\ task'[t].ret = OkRes(task[t].out.lines)
                    /\ DOMAIN cache' = DOMAIN cache \cup {CurKey(t)}
                    /\ cache'[CurKey(t)] =
                            [result |-> task[t].out.lines,
                             timestamp |-> task[t].cur]]_vars

\* The backing time advanced past the stored entry's: the second get_items
\* ran the script and the entry now carries the later time.
C3_EntryRefreshed ==
    \E t \in Tasks :
        /\ task[t].pc = "done" /\ task[t].call.op = "get_items"
        /\ task[t].call.qa = "RecentFiles"
        /\ hist[t].served = "refresh" /\ task[t].ret.ok
        /\ task[t].cur = MaxTime
        /\ cache[CacheKey("QueryRecentFile", NoPath)] =
                [result |-> task[t].ret.val, timestamp |-> MaxTime]

----------------------------------------------------------------------------
\* Properties of the manager's mutations.

Done(t, op) == task[t].pc = "done" /\ task[t].call.op = op

\* C4: when add_item, remove_item or empty_items has returned Ok the cache
\* holds zero entries, and an empty cache gets an entry only when a query's
\* run finishes.
C4_EmptyAfterMutation ==
    /\ [](\A t \in Tasks :
            (task[t].pc = "done" /\ IsMutating(task[t].call) /\ task[t].ret.ok) =>
                DOMAIN cache = {})
    /\ [][(DOMAIN cache = {} /\ DOMAIN cache' # {}) =>
            \E t \in Tasks :
                /\ StepsFrom(t, "exited")
                /\ should_cache(CurScript(t))
                /\ DOMAIN cache' = {CurKey(t)}]_vars

\* A mutation whose membership pre-check was answered from the cache has
\* returned Ok: the entry that answered it is gone.
C4_ClearedAfterHit ==
    \E t \in Tasks :
        /\ task[t].pc = "done" /\ IsMutating(task[t].call) /\ task[t].ret.ok
        /\ hist[t].served = "cache" /\ hist[t].mutated
        /\ DOMAIN cache = {}

\* C5: add_item on a path the membership query reports present returns
\* Err(AlreadyExists), remove_item on a path reported absent returns
\* Err(NotInRecent), the code's not-found kind; neither runs a mutating script
\* or a native add, and the step that rejects leaves the lists alone.
C5_RejectsWithoutMutation ==
    /\ [](\A t \in Tasks :
            /\ (task[t].call.op = "add_item" /\ hist[t].pre = "present") =>
                    /\ task[t].pc = "done" /\ ~task[t].ret.ok
                    /\ task[t].ret.err = "AlreadyExists"
                    /\ ~hist[t].mutated
            /\ (task[t].call.op = "remove_item" /\ hist[t].pre = "absent") =>
                    /\ task[t].pc = "done" /\ ~task[t].ret.ok
                    /\ task[t].ret.err = "NotInRecent"
                    /\ ~hist[t].mutated)
    /\ [][\A t \in Tasks :
            (task'[t] # task[t] /\ hist'[t].pre # hist[t].pre
                /\ task'[t].pc = "done") =>
                recent' = recent /\ frequent' = frequent
                    /\ recentMtime' = recentMtime
                    /\ frequentMtime' = frequentMtime]_vars

\* add_item was rejected for a path its query listed.
C5_AddRejected ==
    \E t \in Tasks :
        /\ Done(t, "add_item") /\ hist[t].pre = "present"
        /\ task[t].ret.err = "AlreadyExists"
        /\ task[t].call.path \in task[t].res.val

----------------------------------------------------------------------------
\* Properties of the timeouts.

\* The launches made through execute_with_timeout: ScriptExecutor's ("raw")
\* and CachedScriptExecutor's (the manager's queries and mutation scripts).
ThroughExecuteWithTimeout(t) ==
    CurInstr(t) \in {"raw", "query", "mut_script", "pinned"}

Awaiting(t) == task[t].pc \in {"running", "exited"}

\* C7: a call awaiting a run inside execute_with_timeout always gets past the
\* await; while the run has not finished the only way past it is
\* Err(Timeout); once the run has finished the call goes on with the run's own
\* result, Ok or error, and never with Timeout.
C7_TimeoutOrOwnResult ==
    /\ \A t \in SeqTasks :
            (Awaiting(t) /\ ThroughExecuteWithTimeout(t)) ~> ~Awaiting(t)
    /\ [][\A t \in SeqTasks :
            /\ (StepsFrom(t, "running") /\ ThroughExecuteWithTimeout(t)
                    /\ task'[t].pc # "exited") =>
                    /\ task'[t].pc = "done"
                    /\ task'[t].ret = ErrRes("Timeout")
            /\ (StepsFrom(t, "exited") /\ ThroughExecuteWithTimeout(t)) =>
                    /\ ~(task'[t].pc = "done" /\ task'[t].ret.err = "Timeout")
                    /\ (CurInstr(t) = "raw" /\ task[t].out.exit # "nolaunch") =>
                            /\ task'[t].pc = "done"
                            /\ task'[t].ret.ok
                            /\ task'[t].ret.val = task[t].out
                    /\ (CurInstr(t) = "raw" /\ task[t].out.exit = "nolaunch") =>
                            /\ task'[t].pc = "done"
                            /\ ~task'[t].ret.ok
                            /\ task'[t].ret.err = "PowerShellExecution"
                    /\ (CurInstr(t) # "raw" /\ task[t].out.exit # "ok") =>
                            /\ task'[t].pc = "done"
                            /\ task'[t].ret = ErrRes("PowerShellExecution")
                    /\ (CurInstr(t) # "raw" /\ task[t].out.exit = "ok") =>
                            task'[t].res = OkRes(task[t].out.lines)]_vars

\* ScriptExecutor::execute_with_timeout returned Err(Timeout).
C7_TimedOut ==
    \E t \in SeqTasks :
        /\ Done(t, "execute_with_timeout")
        /\ ~task[t].ret.ok /\ task[t].ret.err = "Timeout"

\* C8: every interpreter launch of a manager entry point sits inside an outer
\* timeout: while one of them is running its timer can fire.
C8_EveryLaunchTimed ==
    \A t \in Tasks :
        (task[t].pc = "running"
            /\ task[t].call.op \in {"get_items", "check_item", "add_item",
                                    "remove_item", "empty_items",
                                    "check_feasible"}) =>
            ENABLED TimeoutFire(t)

----------------------------------------------------------------------------
\* Properties of the feasibility check.

QueryOps == {"get_items", "check_item"}

\* C9: a query begun when the feasibility flags are known and query-feasible
\* is false, and a remove begun when mutate-feasible is false, spawns no
\* subprocess and fails with UnsupportedOperation.
C9_FailsFastWhenInfeasible ==
    \A t \in Tasks :
        (/\ hist[t].feasAtStart.known
         /\ \/ task[t].call.op \in QueryOps /\ ~hist[t].feasAtStart.query
            \/ task[t].call.op = "remove_item" /\ ~hist[t].feasAtStart.handle) =>
            /\ hist[t].launches = 0
            /\ task[t].pc = "done" =>
                    ~task[t].ret.ok /\ task[t].ret.err = "UnsupportedOperation"

\* C10: each of the two probe scripts is run at most once whatever the
\* sequence or interleaving of check_feasible calls; once the cell holds a
\* pair it never changes; every check_feasible call returns the cell's pair.
C10_ProbedOnce ==
    /\ [](\A s \in DOMAIN probeRuns : probeRuns[s] <= 1)
    /\ [](\A t \in Tasks :
            Done(t, "check_feasible") =>
                /\ feasibility.known /\ task[t].ret.ok
                /\ task[t].ret.val = <<feasibility.query, feasibility.handle>>)
    /\ [][feasibility.known => feasibility' = feasibility]_vars

\* Two check_feasible calls have both returned, one of them begun before the
\* cell was set and served by the other's probes, which ran once each.
C10_BothReturned ==
    /\ \A t \in Tasks : Done(t, "check_feasible") /\ task[t].ret.ok
    /\ \A s \in DOMAIN probeRuns : probeRuns[s] = 1
    /\ \E t \in Tasks : hist[t].launches = 0 /\ ~hist[t].feasAtStart.known

\* The flag a probe step writes.
ProbeFlag(tk, instr) ==
    IF instr = "probeQ" THEN tk.probe.query ELSE tk.probe.handle

\* C11: check_feasible never returns an error; a probe that could not be
\* launched, exited with an error or ran into the timeout leaves its flag
\* false and the call goes on; the flag is true only for a probe that exited
\* with status 0 before the timeout; the pair stored is the pair of flags.
C11_ProbeFailureIsFalse ==
    /\ [](\A t \in Tasks : Done(t, "check_feasible") => task[t].ret.ok)
    /\ [][\A t \in Tasks :
            /\ (CurInstr(t) \in {"probeQ", "probeH"} /\ task'[t] # task[t]
                    /\ task[t].pc \in {"running", "exited"}
                    /\ task'[t].pc # "exited") =>
                    /\ task'[t].pc = "ready"
                    /\ ProbeFlag(task'[t], CurInstr(t)) =
                            (task[t].pc = "exited" /\ task[t].out.exit = "ok")
            /\ (At(t, "cell_set") /\ task'[t] # task[t]) =>
                    /\ feasibility'.query = task[t].probe.query
                    /\ feasibility'.handle = task[t].probe.handle]_vars

\* check_feasible returned (false, true): the query probe failed, the
\* pin/unpin probe succeeded.
C11_FailedProbeReported ==
    \E t \in Tasks :
        /\ Done(t, "check_feasible") /\ task[t].ret.ok
        /\ task[t].ret.val = <<FALSE, TRUE>>
        /\ hist[t].launches = 2

\* C12: a new manager has launched nothing, its feasibility cell is
\* uninitialised and its cache empty; a probe is launched only by a
\* check_feasible call that found the cell empty and initialises it.
C12_NoEagerProbing ==
    /\ (/\ ~feasibility.known /\ initBy = NoTask
        /\ DOMAIN cache = {}
        /\ \A s \in DOMAIN probeRuns : probeRuns[s] = 0
        /\ \A t \in Tasks : task[t].pc = "idle" /\ hist[t].launches = 0)
    /\ [](\A s \in DOMAIN probeRuns :
            probeRuns[s] > 0 => feasibility.known \/ initBy # NoTask)
    /\ [][\A s \in DOMAIN probeRuns :
            probeRuns'[s] # probeRuns[s] =>
                /\ ~feasibility.known
                /\ initBy # NoTask
                /\ task[initBy].call.op = "check_feasible"
                /\ task'[initBy].pc = "running"]_vars

\* The first check_feasible call on a manager is running the query probe.
C12_FirstCallProbes ==
    \E t \in Tasks :
        /\ task[t].call.op = "check_feasible" /\ task[t].pc = "running"
        /\ CurInstr(t) = "probeQ" /\ initBy = t
        /\ probeRuns["CheckQueryFeasible"] = 1
        /\ probeRuns["CheckPinUnpinFeasible"] = 0
        /\ ~feasibility.known

----------------------------------------------------------------------------
\* ScriptStrategyFactory::generate_script.  A text is a sequence of
\* characters; the fixed parts of a template are single tokens.

\* Longest parameter text tried.
MaxParamLen == 2

\* Characters of a parameter: a letter and the double quote.
ParamChars == {"x", "\""}

RECURSIVE Texts(_, _)
Texts(chars, n) ==
    IF n = 0 THEN {<<>>}
    ELSE LET shorter == Texts(chars, n - 1) IN
         shorter \cup {Append(t, c) : t \in {u \in shorter : Len(u) = n - 1},
                                      c \in chars}

Parameters == {None} \cup {Some(p) : p \in Texts(ParamChars, MaxParamLen)}

ParameterizedKinds ==
    {"RemoveRecentFile", "PinToFrequentFolder", "UnpinFromFrequentFolder"}

OkText(text) == [ok |-> TRUE, val |-> text, err |-> ""]
ErrText(e) == [ok |-> FALSE, val |-> <<>>, err |-> e]

\* Mutant of ok_or: a missing parameter is taken as the empty text.
ok_or_empty(parameter) == OkText(parameter.val)

\* parameter.ok_or(WincentError::MissingParemeter)
ok_or(parameter) ==
    IF parameter.some THEN OkText(parameter.val) ELSE ErrText("MissingParemeter")

\* The format! of each strategy around its path argument.
Template(script_type, path) ==
    CASE script_type = "RemoveRecentFile" ->
            <<"utf8_header", "shell_com_object", "QUICK_ACCESS", "Path -eq \"">>
                \o path \o <<"\"}; remove">>
      [] script_type = "PinToFrequentFolder" ->
            <<"utf8_header", "shell_com_object", "Namespace(\"">>
                \o path \o <<"\").Self pintohome">>
      [] script_type = "UnpinFromFrequentFolder" ->
            <<"utf8_header", "shell_com_object", "FREQUENT_FOLDERS",
              "Path -eq \"">> \o path \o <<"\"}; unpinfromhome">>
      [] script_type = "EmptyPinnedFolders" ->
            <<"utf8_header", "shell_com_object", "FREQUENT_FOLDERS",
              "unpinfromhome">>
      [] OTHER -> <<"utf8_header", script_type>>

generate_script(script_type, parameter) ==
    IF script_type \in ParameterizedKinds
    THEN LET path == ok_or(parameter) IN
         IF path.ok THEN OkText(Template(script_type, path.val)) ELSE path
    ELSE OkText(Template(script_type, <<>>))

----------------------------------------------------------------------------
\* ScriptExecutor::parse_output_to_strings on the bytes of an Output.

\* Longest stdout tried.
MaxOutLen == 4

OutChars == {"a", " ", "\r", "\n"}

is_whitespace(c) == c \in {" ", "\r", "\n", "\t"}

Outputs ==
    [status : {0, 1}, stdout : Texts(OutChars, MaxOutLen),
     stderr : {<<>>, <<"e">>}]

\* Index of the first "\n" of s, 0 when there is none.
FindNewline(s) ==
    IF \E i \in 1..Len(s) : s[i] = "\n"
    THEN CHOOSE i \in 1..Len(s) : s[i] = "\n" /\ \A j \in 1..(i - 1) : s[j] # "\n"
    ELSE 0

RECURSIVE split_inclusive(_)
split_inclusive(s) ==
    IF s = <<>> THEN <<>>
    ELSE LET i == FindNewline(s) IN
         IF i = 0 THEN <<s>>
         ELSE <<SubSeq(s, 1, i)>> \o split_inclusive(SubSeq(s, i + 1, Len(s)))

EndsWith(s, c) == s # <<>> /\ s[Len(s)] = c
DropLast(s) == SubSeq(s, 1, Len(s) - 1)

\* str::lines: each piece without its "\n", and without the "\r" before it.
LineOf(piece) ==
    IF ~EndsWith(piece, "\n") THEN piece
    ELSE IF EndsWith(DropLast(piece), "\r") THEN DropLast(DropLast(piece))
    ELSE DropLast(piece)

lines(s) == [k \in 1..Len(split_inclusive(s)) |-> LineOf(split_inclusive(s)[k])]

RECURSIVE trim_start(_)
trim_start(s) ==
    IF s # <<>> /\ is_whitespace(Head(s)) THEN trim_start(Tail(s)) ELSE s

RECURSIVE trim_end(_)
trim_end(s) ==
    IF s # <<>> /\ is_whitespace(s[Len(s)]) THEN trim_end(DropLast(s)) ELSE s

\* Mutant of trim: the line is kept as it is.
trim_nothing(s) == s

trim(s) == trim_end(trim_start(s))

NotEmpty(s) == s # <<>>

\* Mutant of success: every exit status counts as success.
success_always(status) == TRUE

\* ExitStatus::success
success(status) == status = 0

ParseOutput(output) ==
    IF ~success(output.status)
    THEN [ok |-> FALSE, val |-> <<>>, err |-> "PowerShellExecution",
          msg |-> output.stderr]
    ELSE [ok |-> TRUE,
          val |-> SelectSeq([k \in 1..Len(lines(output.stdout)) |->
                                trim(lines(output.stdout)[k])], NotEmpty),
          err |-> "", msg |-> <<>>]

----------------------------------------------------------------------------
\* The pure functions applied to every input of the bounded sets.

\* feasible.rs: the execution policy in the registry and the two probes.

OkBool(b) == [ok |-> TRUE, val |-> b, err |-> ""]
ErrBool(e) == [ok |-> FALSE, val |-> FALSE, err |-> e]

\* What reading the ExecutionPolicy value gives: one of the policies, no such
\* value, or another registry error.
PolicyReads ==
    {"AllSigned", "Bypass", "RemoteSigned", "Unrestricted", "Restricted",
     "Undefined", "NotFound", "OtherError"}

feasible_options == {"AllSigned", "Bypass", "RemoteSigned", "Unrestricted"}

check_script_feasible_with_registry(read) ==
    CASE read = "NotFound" -> OkBool(FALSE)
      [] read = "OtherError" -> ErrBool("Io")
      [] OTHER -> OkBool(read \in feasible_options)

\* What execute_ps_script gives for a probe: no launch, or an exit status.
ProbeRuns ==
    {[launched |-> FALSE, status |-> 1]}
        \cup [launched : {TRUE}, status : {0, 1}]

\* check_query_feasible_with_script / check_pinunpin_feasible_with_script:
\* execute_ps_script(..)? then Ok(output.status.success()).
check_feasible_with_script(run) ==
    IF run.launched THEN OkBool(success(run.status))
    ELSE ErrBool("PowerShellExecution")

\* Mutant of BothOk: one successful probe is enough.
EitherOk(query_ok, pinunpin_ok) == query_ok \/ pinunpin_ok

\* Ok(query_ok && pinunpin_ok)
BothOk(query_ok, pinunpin_ok) == query_ok /\ pinunpin_ok

\* feasible::check_feasible, with the probes it ran, in order.
check_feasible(read, query_run, pinunpin_run) ==
    LET policy == check_script_feasible_with_registry(read)
        query == check_feasible_with_script(query_run)
        pinunpin == check_feasible_with_script(pinunpin_run)
        Ran(r, probes) == [ok |-> r.ok, val |-> r.val, err |-> r.err,
                           ran |-> probes]
    IN  IF ~policy.ok THEN Ran(policy, <<>>)
        ELSE IF ~policy.val THEN Ran(OkBool(FALSE), <<>>)
        ELSE IF ~query.ok THEN Ran(query, <<"CheckQueryFeasible">>)
        ELSE IF ~pinunpin.ok
             THEN Ran(pinunpin, <<"CheckQueryFeasible", "CheckPinUnpinFeasible">>)
        ELSE Ran(OkBool(BothOk(query.val, pinunpin.val)),
                 <<"CheckQueryFeasible", "CheckPinUnpinFeasible">>)

PureInit ==
    /\ ManagerIdle
    /\ StorageIdle
    /\ got = NoGot
    /\ \/ arg \in [fn : {"generate_script"}, script_type : PSScript,
                   parameter : Parameters]
       \/ arg \in [fn : {"parse_output_to_strings"}, output : Outputs]
       \/ arg \in [fn : {"check_feasible"}, read : PolicyReads,
                   query_run : ProbeRuns, pinunpin_run : ProbeRuns]

Generate ==
    /\ arg.fn = "generate_script" /\ got = NoGot
    /\ got' = [fn |-> arg.fn,
               res |-> generate_script(arg.script_type, arg.parameter)]
    /\ UNCHANGED <<managerVars, storageVars, arg>>

Parse ==
    /\ arg.fn = "parse_output_to_strings" /\ got = NoGot
    /\ got' = [fn |-> arg.fn, res |-> ParseOutput(arg.output)]
    /\ UNCHANGED <<managerVars, storageVars, arg>>

Feasible ==
    /\ arg.fn = "check_feasible" /\ got = NoGot
    /\ got' = [fn |-> arg.fn,
               res |-> check_feasible(arg.read, arg.query_run, arg.pinunpin_run)]
    /\ UNCHANGED <<managerVars, storageVars, arg>>

PureNext == Generate \/ Parse \/ Feasible

PureSpec == PureInit /\ [][PureNext]_vars

----------------------------------------------------------------------------
\* Properties of script generation and output parsing.

\* p occurs in text as a contiguous run.
Contains(text, p) ==
    \E i \in 0..(Len(text) - Len(p)) : SubSeq(text, i + 1, i + Len(p)) = p

Generated == got.fn = "generate_script"

\* C18: for RemoveRecentFile, PinToFrequentFolder and UnpinFromFrequentFolder
\* generate_script without a parameter fails with the missing-parameter error
\* (WincentError::MissingParemeter in the code) and with Some(p) succeeds with
\* a text containing p verbatim; for every other kind it succeeds with or
\* without a parameter.
C18_ParameterRequired ==
    Generated =>
        IF arg.script_type \in {"RemoveRecentFile", "PinToFrequentFolder",
                                "UnpinFromFrequentFolder"}
        THEN IF arg.parameter.some
             THEN got.res.ok /\ Contains(got.res.val, arg.parameter.val)
             ELSE ~got.res.ok /\ got.res.err = "MissingParemeter"
        ELSE got.res.ok /\ got.res.val # <<>>

\* A remove script was generated around a parameter holding a double quote.
C18_QuotedParameterKept ==
    /\ Generated /\ arg.script_type = "RemoveRecentFile"
    /\ arg.parameter = Some(<<"x", "\"">>)
    /\ got.res.ok /\ Contains(got.res.val, <<"x", "\"">>)

Parsed == got.fn = "parse_output_to_strings"

\* The positions that bound the lines of s: before it, each "\n", after it.
Cuts(s) == {0, Len(s) + 1} \cup {i \in 1..Len(s) : s[i] = "\n"}

NthCut(s, k) ==
    CHOOSE c \in Cuts(s) : Cardinality({d \in Cuts(s) : d < c}) = k - 1

SplitAtNewlines(s) ==
    [k \in 1..(Cardinality(Cuts(s)) - 1) |->
        SubSeq(s, NthCut(s, k) + 1, NthCut(s, k + 1) - 1)]

Solid(l) == {i \in 1..Len(l) : l[i] \notin {" ", "\r", "\n", "\t"}}

Stripped(l) ==
    IF Solid(l) = {} THEN <<>>
    ELSE SubSeq(l, CHOOSE i \in Solid(l) : \A j \in Solid(l) : i <= j,
                   CHOOSE i \in Solid(l) : \A j \in Solid(l) : i >= j)

ExpectedLines(s) ==
    SelectSeq([k \in 1..Len(SplitAtNewlines(s)) |-> Stripped(SplitAtNewlines(s)[k])],
              NotEmpty)

\* C19: for exit status 0 parse_output_to_strings returns stdout split at its
\* newlines, each line trimmed, the empty ones dropped, in the original
\* order; no returned line is empty or begins or ends with whitespace.
C19_LinesTrimmedInOrder ==
    (Parsed /\ arg.output.status = 0) =>
        /\ got.res.ok
        /\ got.res.val = ExpectedLines(arg.output.stdout)
        /\ \A k \in 1..Len(got.res.val) :
            LET l == got.res.val[k] IN
                /\ l # <<>>
                /\ l[1] \notin {" ", "\r", "\n", "\t"}
                /\ l[Len(l)] \notin {" ", "\r", "\n", "\t"}

\* The text " a", newline, "a" was parsed into the two lines "a", "a".
C19_TwoLinesParsed ==
    /\ Parsed /\ arg.output.status = 0
    /\ arg.output.stdout = <<" ", "a", "\n", "a">>
    /\ got.res.ok /\ got.res.val = << <<"a">>, <<"a">> >>

\* C20: for a non-zero exit status parse_output_to_strings returns the
\* execution error carrying the stderr text, whatever stdout holds, never Ok.
C20_FailureCarriesStderr ==
    (Parsed /\ arg.output.status # 0) =>
        /\ ~got.res.ok
        /\ got.res.err = "PowerShellExecution"
        /\ got.res.msg = arg.output.stderr

\* A failed run that printed a line was parsed into the error with its stderr.
C20_FailedRunWithOutput ==
    /\ Parsed /\ arg.output.status = 1
    /\ arg.output.stdout = <<"a", "\n">> /\ arg.output.stderr = <<"e">>
    /\ ~got.res.ok /\ got.res.msg = <<"e">>

----------------------------------------------------------------------------
\* ScriptStorage: script files under %TEMP%\wincent\static and \dynamic.
\* A path is its directory, the parts of the file name between the "_"
\* (a PSScript name, a version and a hash hold none) and the extension.

\* Duration::from_secs(24 * 60 * 60), in the clock's unit of 24 hours.
expiry_duration == 1

\* Largest value of the store's clock.
MaxClock == 2

\* Three parameters, two of which share the first 8 hex digits of their MD5.
StoreParams == {<<"x">>, <<"x", "x">>, <<"\"">>}

\* format!("{:x}", md5::compute(parameter))[..8]
hash_parameter(parameter) == IF Head(parameter) = "x" THEN "h1" ELSE "h2"

\* parse_script_version: parts[1] of the name split at "_", if there are two.
parse_script_version(parts) ==
    IF Len(parts) >= 2 THEN Some(parts[2]) ELSE None

\* Mutant of FileName: the version is left out of the name.
FileNameUnversioned(script_type, version, suffix) ==
    <<script_type, "0">> \o suffix

\* format!("{:?}_{}.ps1", ..) and format!("{:?}_{}_{}.ps1", ..)
FileName(script_type, version, suffix) == <<script_type, version>> \o suffix

ScriptPath(script_type, version, parameter) ==
    IF parameter.some
    THEN [dir |-> "dynamic",
          parts |-> FileName(script_type, version,
                             <<hash_parameter(parameter.val)>>),
          ext |-> "ps1"]
    ELSE [dir |-> "static", parts |-> FileName(script_type, version, <<>>),
          ext |-> "ps1"]

\* The path the resolve of process p is about.
TargetPath(p) ==
    ScriptPath(proc[p].script_type, proc[p].version, proc[p].parameter)

Exists(path) == path \in DOMAIN files

\* A file left in the dynamic directory by something else.
SeedPath == [dir |-> "dynamic", parts |-> <<"notes">>, ext |-> "ps1"]

Blank == [bom |-> FALSE, text |-> <<>>]

NewFile(version) == [content |-> Blank, created |-> clock, by |-> version]

\* Mutant of Expired: a file is swept as soon as it is 24 hours old.
ExpiredAt(created) == clock - created >= expiry_duration

\* now.duration_since(created).unwrap_or(Duration::ZERO) > expiry_duration
Expired(created) ==
    (IF clock >= created THEN clock - created ELSE 0) > expiry_duration

\* cleanup_expired_scripts: should_remove for one entry of the directory.
should_remove(path, current_version) ==
    /\ path.ext = "ps1"
    /\ LET file_version == parse_script_version(path.parts) IN
        \/ file_version.some /\ file_version.val # current_version
        \/ Expired(files[path].created)

Doomed(current_version) ==
    {path \in DOMAIN files :
        path.dir = "dynamic" /\ should_remove(path, current_version)}

Without(gone) == [path \in DOMAIN files \ gone |-> files[path]]

\* Mutant of NeedsCreate: the file is written at every resolve.
NeedsCreateAlways(path) == TRUE

\* if !script_path.exists()
NeedsCreate(path) == ~Exists(path)

\* Mutant of OnExisting: a file that is already there is an error.
OnExistingFails(path) == ErrPath("AlreadyExists")

\* if !script_path.exists() { .. } Ok(script_path)
OnExisting(path) == OkPath(path)

\* The arguments a process resolves with, the same at each of its calls:
\* RefreshExplorer takes no parameter; RemoveRecentFile takes one, and is
\* also called without.
StoreCalls ==
    {[script_type |-> "RefreshExplorer", parameter |-> None],
     [script_type |-> "RemoveRecentFile", parameter |-> None]}
    \cup {[script_type |-> "RemoveRecentFile", parameter |-> Some(q)] :
            q \in StoreParams}

\* What p1 resolves. p2 resolves any of StoreCalls: the same script as p1, a
\* script with the same hash, one with another hash, or a static one.
FirstCalls ==
    {c \in StoreCalls : c.parameter.some => c.parameter.val = <<"x">>}

StoreInit ==
    /\ ManagerIdle
    /\ PureIdle
    /\ clock = 0
    /\ files = [path \in {SeedPath} |-> NewFile("-")]
    /\ \E v \in Versions, c1 \in FirstCalls, c2 \in StoreCalls :
        proc = [p \in Procs |-> IF p = "p1" THEN IdleProc("v1", c1)
                                             ELSE IdleProc(v, c2)]

\* One resolve = execute_ps_script's call of get_script_path (no parameter)
\* or get_dynamic_script_path (a parameter), one step per file-system call.

StoreOthers == <<managerVars, pureVars>>

SetProc(p, r) == proc' = [proc EXCEPT ![p] = r]

\* The call ends with result r; its File handle is dropped.
Finish(p, r) ==
    [proc[p] EXCEPT !.pc = "done", !.ret = r, !.live = FALSE,
                    !.swept = "none"]

CallResolve(p) ==
    /\ proc[p].pc = "idle"
    /\ SetProc(p, [proc[p] EXCEPT
          !.pc = "dir", !.absentAtStart = ~Exists(TargetPath(p))])
    /\ UNCHANGED <<files, clock, StoreOthers>>

\* get_static_scripts_dir: create_dir_all, which may fail; no sweep.
get_static_scripts_dir(p) ==
    /\ proc[p].pc = "dir"
    /\ ~proc[p].parameter.some
    /\ \/ SetProc(p, [proc[p] EXCEPT !.pc = "examine"])
       \/ SetProc(p, Finish(p, ErrPath("Io")))
    /\ UNCHANGED <<files, clock, StoreOthers>>

\* Mutant of Swallowed: a failed remove_file is propagated with "?".
SwallowedNone(failed) == failed = {}

\* if let Ok(entries) = fs::read_dir(dir) and let _ = fs::remove_file(path):
\* whatever could not be listed or removed, the sweep returns Ok(()).
Swallowed(failed) == TRUE

\* cleanup_expired_scripts: every doomed file is removed, except those whose
\* remove_file fails (let _ = fs::remove_file). A handle another process
\* holds on a removed file names no file any more.
cleanup_expired_scripts(p) ==
    \E failed \in SUBSET Doomed(proc[p].version) :
        LET gone == Doomed(proc[p].version) \ failed IN
        /\ files' = Without(gone)
        /\ proc' = [q \in Procs |->
            IF q = p
            THEN IF Swallowed(failed)
                 THEN [proc[p] EXCEPT
                        !.pc = "examine",
                        !.swept = IF failed = {} THEN "clean" ELSE "partial"]
                 ELSE [Finish(p, ErrPath("Io")) EXCEPT !.swept = "partial"]
            ELSE IF proc[q].live /\ TargetPath(q) \in gone
                 THEN [proc[q] EXCEPT !.live = FALSE]
                 ELSE proc[q]]

\* get_dynamic_scripts_dir: create_dir_all, then always the sweep.
get_dynamic_scripts_dir(p) ==
    /\ proc[p].pc = "dir"
    /\ proc[p].parameter.some
    /\ \/ cleanup_expired_scripts(p)
       \/ SetProc(p, Finish(p, ErrPath("Io"))) /\ UNCHANGED files
    /\ UNCHANGED <<clock, StoreOthers>>

\* get_script_path / get_dynamic_script_path after the directory is there:
\* the exists() test and, for a missing file, generate_script.
Examine(p) ==
    /\ proc[p].pc = "examine"
    /\ LET path == TargetPath(p)
           content == generate_script(proc[p].script_type, proc[p].parameter)
       IN  IF ~NeedsCreate(path)
           THEN SetProc(p, Finish(p, OnExisting(path)))
           ELSE IF content.ok
                THEN SetProc(p, [proc[p] EXCEPT !.pc = "create",
                                                !.text = content.val,
                                                !.swept = "none"])
                ELSE SetProc(p, Finish(p, ErrPath(content.err)))
    /\ UNCHANGED <<files, clock, StoreOthers>>

\* create_script_file, File::create: a new empty file, or the existing file
\* cut to length 0 (its creation time stays).
FileCreate(p) ==
    /\ proc[p].pc = "create"
    /\ \/ LET path == TargetPath(p) IN
            /\ files' = [q \in DOMAIN files \cup {path} |->
                  IF q = path
                  THEN IF Exists(path)
                       THEN [files[path] EXCEPT !.content = Blank,
                                                !.by = proc[p].version]
                       ELSE NewFile(proc[p].version)
                  ELSE files[q]]
            /\ SetProc(p, [proc[p] EXCEPT !.pc = "write_bom", !.live = TRUE])
       \/ SetProc(p, Finish(p, ErrPath("Io"))) /\ UNCHANGED files
    /\ UNCHANGED <<clock, StoreOthers>>

\* file.write_all(&[0xEF, 0xBB, 0xBF]) at offset 0.
WriteBom(p) ==
    /\ proc[p].pc = "write_bom"
    /\ \/ /\ files' = IF proc[p].live
                      THEN [files EXCEPT ![TargetPath(p)].content.bom = TRUE]
                      ELSE files
          /\ SetProc(p, [proc[p] EXCEPT !.pc = "write_text"])
       \/ SetProc(p, Finish(p, ErrPath("Io"))) /\ UNCHANGED files
    /\ UNCHANGED <<clock, StoreOthers>>

\* file.write_all(content.as_bytes()) at offset 3, flush, Ok(script_path).
WriteText(p) ==
    /\ proc[p].pc = "write_text"
    /\ \/ /\ files' = IF proc[p].live
                      THEN [files EXCEPT
                              ![TargetPath(p)].content.text = proc[p].text]
                      ELSE files
          /\ SetProc(p, Finish(p, OkPath(TargetPath(p))))
       \/ SetProc(p, Finish(p, ErrPath("Io"))) /\ UNCHANGED files
    /\ UNCHANGED <<clock, StoreOthers>>

\* The caller takes the result.
StoreReturn(p) ==
    /\ proc[p].pc = "done"
    /\ SetProc(p, [proc[p] EXCEPT !.pc = "idle", !.again = proc[p].ret.ok,
                                  !.ret = NoRet, !.absentAtStart = FALSE,
                                  !.text = <<>>])
    /\ UNCHANGED <<files, clock, StoreOthers>>

\* 24 hours pass.
StoreTick ==
    /\ clock < MaxClock
    /\ clock' = clock + 1
    /\ UNCHANGED <<files, proc, StoreOthers>>

StoreNext ==
    \/ StoreTick
    \/ \E p \in Procs :
        \/ CallResolve(p)
        \/ get_static_scripts_dir(p)
        \/ get_dynamic_scripts_dir(p)
        \/ Examine(p)
        \/ FileCreate(p)
        \/ WriteBom(p)
        \/ WriteText(p)
        \/ StoreReturn(p)

StoreSpec == StoreInit /\ [][StoreNext]_vars

----------------------------------------------------------------------------
\* Claims about ScriptStorage.

\* Process p takes a step of its resolve.
Moves(p) == proc'[p].pc # proc[p].pc

\* The file at the path is the same before and after the step.
FileKept(path) ==
    /\ Exists(path)
    /\ path \in DOMAIN files'
    /\ files'[path] = files[path]

\* The BOM followed by generate_script's text.
Complete(script_type, parameter) ==
    [bom |-> TRUE, text |-> generate_script(script_type, parameter).val]

\* p's resolve under way follows one of p, with the same arguments and the
\* same version, that returned Ok.
Second(p) == proc[p].again /\ proc[p].pc \notin {"idle", "done"}

C14_ResolvedUnderOwnVersion ==
    /\ \A p \in Procs :
        proc[p].pc = "done" /\ proc[p].ret.ok =>
            /\ parse_script_version(proc[p].ret.path.parts)
                 = Some(proc[p].version)
            /\ Exists(proc[p].ret.path) =>
                 files[proc[p].ret.path].by = proc[p].version
    /\ \A path \in DOMAIN files :
        path # SeedPath =>
            parse_script_version(path.parts) = Some(files[path].by)

\* Witness: two processes of different versions have resolved the same
\* dynamic script; each got its own path and both files are there.
C14_TwoVersionsTwoFiles ==
    /\ proc["p1"].version # proc["p2"].version
    /\ proc["p1"].parameter.some
    /\ proc["p1"].script_type = proc["p2"].script_type
    /\ proc["p1"].parameter = proc["p2"].parameter
    /\ \A p \in Procs :
        /\ proc[p].pc = "done"
        /\ proc[p].ret = OkPath(TargetPath(p))
        /\ Exists(TargetPath(p))
        /\ files[TargetPath(p)].by = proc[p].version
    /\ proc["p1"].ret.path # proc["p2"].ret.path

\* No resolve is between File::create and its last write.
NoWriter == \A q \in Procs : proc[q].pc \notin {"write_bom", "write_text"}

\* The file holds a BOM and a whole script text.
WhollyWritten(path) ==
    files[path].content.bom /\ files[path].content.text # <<>>

\* C15: once no resolve is writing, a wholly written file at the path a
\* resolve of (kind, p) returned holds the BOM followed by exactly
\* generate_script(kind, p). Refuted: a parameter whose MD5 starts with the
\* same 8 hex digits as an earlier one's is given the file written for the
\* earlier one.
C15_ResolvedFileHoldsOwnScript ==
    \A p \in Procs :
        /\ proc[p].pc = "done"
        /\ proc[p].ret.ok
        /\ Exists(proc[p].ret.path)
        /\ WhollyWritten(proc[p].ret.path)
        /\ NoWriter
        => files[proc[p].ret.path].content
             = Complete(proc[p].script_type, proc[p].parameter)

\* Both processes run the same version and have returned from resolves of
\* the same script that began while it had no file.
Raced ==
    /\ proc["p1"].version = proc["p2"].version
    /\ proc["p1"].script_type = proc["p2"].script_type
    /\ proc["p1"].parameter = proc["p2"].parameter
    /\ generate_script(proc["p1"].script_type, proc["p1"].parameter).ok
    /\ \A p \in Procs : proc[p].pc = "done" /\ proc[p].absentAtStart

Survivors(v) ==
    {path \in DOMAIN files :
        \/ path.dir # "dynamic"
        \/ path.ext # "ps1"
        \/ /\ ~(Len(path.parts) >= 2 /\ path.parts[2] # v)
           /\ clock - files[path].created <= expiry_duration}

----------------------------------------------------------------------------
\* Properties of CachedScriptExecutor's cache contents.

QueryKinds == {"QueryQuickAccess", "QueryRecentFile", "QueryFrequentFolder"}

\* C21: every key of the cache is of a query kind.
C21_OnlyQueriesCached ==
    \A key \in DOMAIN cache : key[1] \in QueryKinds

\* Witness: a mutating script run through the executor has exited with status
\* 0 and its caller has gone on, and the cache holds the pre-check's entry
\* and nothing else.
C21_MutationRanBesideEntry ==
    \E t \in Tasks :
        /\ At(t, "chk_empty")
        /\ task[t].res.ok
        /\ hist[t].mutated
        /\ DOMAIN cache = {CacheKey(map_to_script_type(task[t].call.qa), NoPath)}

\* The task is at an execute of CachedScriptExecutor for a non-query kind.
AtBypass(t) ==
    /\ CurInstr(t) \in ExecInstrs
    /\ InstrCached(CurInstr(t))
    /\ CurScript(t) \notin QueryKinds

\* C22: an execute for a non-query kind launches the script at once, whatever
\* the cache holds, and neither its launch nor the end of its run changes the
\* cache; it never passes through the observation and the lookup.
C22_NonQueryBypassesCache ==
    /\ [](\A t \in Tasks : AtBypass(t) => task[t].pc # "observed")
    /\ [][\A t \in Tasks :
            AtBypass(t) =>
                /\ StepsFrom(t, "ready") =>
                        /\ task'[t].pc = "running"
                        /\ hist'[t].launches = hist[t].launches + 1
                        /\ cache' = cache
                /\ (StepsFrom(t, "running") \/ StepsFrom(t, "exited")) =>
                        cache' = cache]_vars

\* Witness: a mutating script is running while the cache holds an entry, and
\* it is the call's second launch.
C22_MutationRunsOverEntry ==
    \E t \in Tasks :
        /\ task[t].pc = "running"
        /\ CurScript(t) \in MutatingScripts
        /\ AtBypass(t)
        /\ hist[t].launches = 2
        /\ DOMAIN cache # {}

\* C23: a query whose modification time cannot be read, or whose run could
\* not be launched or exited with an error, ends the call's execute with that
\* error and leaves the cache exactly as it was.
C23_FailedQueryKeepsCache ==
    [][\A t \in Tasks :
        UsesCache(t) =>
            /\ (StepsFrom(t, "ready") /\ task'[t].pc = "done") =>
                    /\ task'[t].ret = ErrRes("Io")
                    /\ cache' = cache
            /\ (StepsFrom(t, "exited") /\ task[t].out.exit # "ok") =>
                    /\ task'[t].pc = "done"
                    /\ task'[t].ret = ErrRes("PowerShellExecution")
                    /\ cache' = cache]_vars

\* Witness: get_items found a stale entry, ran the script, the run failed;
\* the call returned the error and the stale entry is still there.
C23_StaleEntryKeptOnFailure ==
    \E t \in Tasks :
        /\ Done(t, "get_items")
        /\ task[t].ret = ErrRes("PowerShellExecution")
        /\ hist[t].served = "refresh"
        /\ CacheKey(map_to_script_type(task[t].call.qa), NoPath) \in DOMAIN cache
        /\ cache[CacheKey(map_to_script_type(task[t].call.qa), NoPath)].timestamp
                < task[t].cur

----------------------------------------------------------------------------
\* Properties of the order of the manager's steps.

\* C24 as stated: add_item or remove_item that returns the validation error
\* has run no script and made no native add. Refuted: both entry points run
\* the membership query (check_item) before handle_operation validates.
C24_ValidatedBeforeExecution ==
    \A t \in Tasks :
        (/\ task[t].pc = "done"
         /\ task[t].call.op \in {"add_item", "remove_item"}
         /\ task[t].ret.err = "InvalidPath") =>
            /\ hist[t].launches = 0
            /\ ~hist[t].mutated

\* C25 as stated: whenever an interpreter started by an entry point of the
\* manager is running, it runs on a blocking worker. Refuted: empty_items
\* with also_system_default runs EmptyPinnedFolders on the caller's task.
C25_LaunchesOffloaded ==
    \A t \in Tasks :
        (task[t].pc = "running" /\ task[t].call.op # "execute_with_timeout") =>
            InstrOffloaded(CurInstr(t))

----------------------------------------------------------------------------
\* Properties of feasible::check_feasible.

\* C26: check_feasible returns Ok(true) exactly when the policy read is one of
\* the four feasible ones and both probes were launched and exited with status
\* 0; when the policy is not feasible it returns Ok(false) and runs no probe.
C26_TrueIffPolicyAndBothProbes ==
    got.fn = "check_feasible" =>
        LET PolicyOk == arg.read \in {"AllSigned", "Bypass", "RemoteSigned",
                                       "Unrestricted"}
            ProbeOk(run) == run.launched /\ run.status = 0
        IN  /\ (got.res.ok /\ got.res.val) <=>
                    /\ PolicyOk
                    /\ ProbeOk(arg.query_run)
                    /\ ProbeOk(arg.pinunpin_run)
            /\ (~PolicyOk /\ arg.read # "OtherError") =>
                    /\ got.res.ok /\ ~got.res.val
                    /\ got.res.ran = <<>>

\* Witness: under a feasible policy the query probe succeeded and the pin
\* probe exited with an error: both were run and the answer is Ok(false).
C26_PinProbeFailed ==
    /\ got.fn = "check_feasible"
    /\ arg.read = "RemoteSigned"
    /\ arg.query_run = [launched |-> TRUE, status |-> 0]
    /\ arg.pinunpin_run = [launched |-> TRUE, status |-> 1]
    /\ got.res.ok /\ ~got.res.val
    /\ got.res.ran = <<"CheckQueryFeasible", "CheckPinUnpinFeasible">>

----------------------------------------------------------------------------
\* Properties of queries racing with mutations.

\* The step in which a task's lookup is answered from the cache.
LookupHit(t) ==
    /\ task[t].pc = "observed"
    /\ task'[t].pc \notin {"observed", "running"}

\* C27: a query and a remove_item run concurrently and the remove leaves the
\* jump list's modification time as it was; once the remove has returned Ok
\* (and nothing else has changed the list), a query its caller makes next is
\* not answered from the cache with lines that still hold the removed item.
C27_NoStaleAnswerAfterMutation ==
    [][\A t \in Writers :
        (/\ LookupHit(t)
         /\ task[t].call.op = "get_items"
         /\ lastMut # NoMut
         /\ recentMtime = 0) =>
            (lastMut.path \in task'[t].res.val) = lastMut.present]_vars

----------------------------------------------------------------------------
\* Properties of the cache lock.

----------------------------------------------------------------------------
\* Properties of concurrent misses on one key.

\* C29: a lookup that misses launches the script even while another call is
\* running it for the same key; every query run that ends well stores its
\* own lines under the modification time it observed, replacing what the key
\* held and touching no other key, so after two such calls the key's one
\* entry is that of the call that inserted last.
C29_LastInsertWins ==
    [][\A t \in Tasks :
        /\ (/\ task[t].pc = "observed"
            /\ task'[t] # task[t]
            /\ ~(HasEntry(t) /\ IsFresh(Entry(t).timestamp, task[t].cur))) =>
                /\ task'[t].pc = "running"
                /\ hist'[t].launches = hist[t].launches + 1
        /\ (/\ task[t].pc = "exited"
            /\ task'[t] # task[t]
            /\ UsesCache(t)
            /\ task[t].out.exit = "ok") =>
                /\ DOMAIN cache' = DOMAIN cache \cup {CurKey(t)}
                /\ cache'[CurKey(t)] =
                        [result |-> task[t].out.lines, timestamp |-> task[t].cur]
                /\ \A k \in DOMAIN cache \ {CurKey(t)} : cache'[k] = cache[k]]_vars

\* Witness: two get_items calls for the recent files both found no entry,
\* both launched and both returned Ok, with different lines read under
\* different modification times; the key's entry is the second task's.
C29_BothMissedSecondKept ==
    /\ \A t \in Tasks :
        /\ Done(t, "get_items") /\ task[t].ret.ok
        /\ task[t].call.qa = "RecentFiles"
        /\ hist[t].launches = 1 /\ hist[t].served = "fresh"
    /\ task["t1"].ret.val # task["t2"].ret.val
    /\ task["t1"].cur # task["t2"].cur
    /\ DOMAIN cache = {CacheKey("QueryRecentFile", NoPath)}
    /\ cache[CacheKey("QueryRecentFile", NoPath)] =
            [result |-> task["t2"].ret.val, timestamp |-> task["t2"].cur]

----------------------------------------------------------------------------
\* Properties of a query that timed out.

\* C30: the step in which a query's timeout fires leaves the cache as it is,
\* and so does the later exit of the interpreter the call left behind: a call
\* that returned Err(Timeout) inserts and replaces nothing.
C30_TimedOutQueryStoresNothing ==
    [][/\ \A t \in Tasks :
            (/\ CanTimeout(t) /\ UsesCache(t)
             /\ task'[t].pc = "done"
             /\ task'[t].ret.err = "Timeout") => cache' = cache
       /\ (abandoned # NoRun /\ abandoned' = NoRun) => cache' = cache]_vars

\* Witness: a get_items has returned Err(Timeout), the interpreter it left
\* behind has exited since, and the key still holds an older entry whose
\* lines are not the present list.
C30_AbandonedRunExited ==
    \E t \in Tasks :
        /\ Done(t, "get_items")
        /\ ~task[t].ret.ok /\ task[t].ret.err = "Timeout"
        /\ task[t].call.qa = "RecentFiles"
        /\ abandoned = NoRun
        /\ CacheKey("QueryRecentFile", NoPath) \in DOMAIN cache
        /\ cache[CacheKey("QueryRecentFile", NoPath)].result # recent

----------------------------------------------------------------------------
\* Properties of queries over an absent backing file.

\* Whether a backing file of the query kind does not exist.
BackingAbsent(script_type) ==
    CASE script_type = "QueryRecentFile" -> recentMtime = Absent
      [] script_type = "QueryFrequentFolder" -> frequentMtime = Absent
      [] script_type = "QueryQuickAccess" ->
            recentMtime = Absent \/ frequentMtime = Absent
      [] OTHER -> FALSE

\* C31: while a backing file of the query kind is absent, the cache check of
\* every execute for that kind misses and the script is launched.
C31_AbsentFileAlwaysMisses ==
    [][\A t \in Tasks :
        (/\ task[t].pc = "observed"
         /\ task'[t] # task[t]
         /\ BackingAbsent(CurScript(t))) => task'[t].pc = "running"]_vars

----------------------------------------------------------------------------
\* Properties of the script file between resolve and launch.

\* C32: from the moment a resolve has returned Ok(path) until its caller
\* spawns the interpreter on it, the file at the path exists and holds the
\* BOM and a whole script text.
C32_ResolvedFileReadyForLaunch ==
    \A p \in Procs :
        (proc[p].pc = "done" /\ proc[p].ret.ok) =>
            /\ Exists(proc[p].ret.path)
            /\ WhollyWritten(proc[p].ret.path)

----------------------------------------------------------------------------
\* Properties of a sweep that could not remove everything.

\* C33: a sweep that left doomed files behind (the directory could not be
\* listed, or a remove_file failed) does not end the resolve: it goes on to
\* the exists() test, and from there it returns Ok with the path under its
\* own version when the file is there, or goes on to create it (unless
\* generate_script rejects the parameter).
C33_SweepFailureNotAnError ==
    [][\A p \in Procs :
        /\ proc'[p].swept = "partial" => proc'[p].pc = "examine"
        /\ (proc[p].swept = "partial" /\ Moves(p)) =>
            \/ /\ proc'[p].pc = "done" /\ proc'[p].ret.ok
               /\ Exists(TargetPath(p))
               /\ proc'[p].ret.path = TargetPath(p)
               /\ parse_script_version(proc'[p].ret.path.parts) =
                        Some(proc[p].version)
            \/ ~Exists(TargetPath(p)) /\ proc'[p].pc = "create"
            \/ /\ ~Exists(TargetPath(p))
               /\ ~generate_script(proc[p].script_type, proc[p].parameter).ok
               /\ proc'[p].pc = "done"]_vars

\* Witness: a resolve whose sweep failed on a doomed file that is still in
\* the directory is at the exists() test, and its own script is there.
C33_ResolveGoesOnAfterFailedSweep ==
    \E p \in Procs :
        /\ proc[p].pc = "examine" /\ proc[p].swept = "partial"
        /\ Doomed(proc[p].version) # {}
        /\ Exists(TargetPath(p))

----------------------------------------------------------------------------
\* Properties of a parameterized kind resolved without its parameter.

\* The resolve of p is of a parameterized kind and was given no parameter.
Unparameterized(p) ==
    proc[p].script_type \in ParameterizedKinds /\ ~proc[p].parameter.some

\* C34 as stated: such a resolve ends with MissingParameter (the code's
\* MissingParemeter). Refuted: when the static directory cannot be created
\* the resolve ends with Io before the script is generated.
C34_FailsWithMissingParameter ==
    \A p \in Procs :
        (Unparameterized(p) /\ proc[p].pc = "done") =>
            ~proc[p].ret.ok /\ proc[p].ret.err = "MissingParemeter"

\* C34, amended: such a resolve never returns a path, so nothing is launched;
\* it ends with MissingParameter, or with Io when the static directory could
\* not be created; its path lies in the static directory, no file is there,
\* and it never reaches File::create, so it creates no file in either
\* directory.
C34_NoFileNoLaunchWithoutParameter ==
    \A p \in Procs :
        Unparameterized(p) =>
            /\ proc[p].pc \notin {"create", "write_bom", "write_text"}
            /\ ~Exists(TargetPath(p))
            /\ TargetPath(p).dir = "static"
            /\ proc[p].pc = "done" =>
                    /\ ~proc[p].ret.ok
                    /\ proc[p].ret.err \in {"MissingParemeter", "Io"}

\* Witness: RemoveRecentFile resolved without a parameter has ended with
\* MissingParameter and the only file on disk is the one that was there.
C34_MissingParameterReturned ==
    \E p \in Procs :
        /\ Unparameterized(p)
        /\ proc[p].pc = "done" /\ proc[p].ret.err = "MissingParemeter"
        /\ DOMAIN files = {SeedPath}

----------------------------------------------------------------------------
\* Properties of empty_items for the combined kind.

\* How often an instruction is still ahead in a plan.
Ahead(plan, instr) == Cardinality({i \in DOMAIN plan : plan[i] = instr})

\* The call of t is empty_items(All, ..).
EmptiesAll(t) ==
    task[t].call.op = "empty_items" /\ task[t].call.qa = "All"

----------------------------------------------------------------------------
\* Properties of the refresh that ends empty_items.

\* C36: whenever empty_items is at its view refresh (about to launch it,
\* running it, or taking its result) the cache has been cleared already, and
\* it is empty when the call returns the refresh's error.
C36_ClearedBeforeRefresh ==
    [][\A t \in SeqTasks :
        (/\ task[t].call.op = "empty_items"
         /\ CurInstr(t) = "refresh"
         /\ task'[t] # task[t]) =>
            /\ cache = EmptyCache
            /\ cache' = EmptyCache
            /\ (task[t].pc = "exited" /\ task[t].out.exit # "ok") =>
                    /\ task'[t].pc = "done"
                    /\ ~task'[t].ret.ok]_vars

\* Witness: empty_items(RecentFiles, force_refresh = true, ..) emptied the
\* list, its refresh script failed, and the call has returned the error over
\* an empty cache.
C36_RefreshFailedCacheEmpty ==
    \E t \in SeqTasks :
        /\ Done(t, "empty_items") /\ task[t].call.qa = "RecentFiles"
        /\ task[t].call.refresh
        /\ ~task[t].ret.ok /\ task[t].ret.err = "PowerShellExecution"
        /\ hist[t].launches = 1 /\ hist[t].mutated
        /\ cache = EmptyCache

----------------------------------------------------------------------------
\* Properties of the mutating script of handle_operation.

\* The call of t mutates through a script: remove_item, or add_item for the
\* frequent folders.
ByScript(t) ==
    \/ task[t].call.op = "remove_item" /\ task[t].call.qa # "All"
    \/ task[t].call.op = "add_item" /\ task[t].call.qa = "FrequentFolders"

\* C37: such a call returns Ok only after its mutating script was launched,
\* exited with status 0 within the timeout and printed no line; when the
\* script times out, cannot be launched, exits with an error or prints a
\* line, the call ends with an error in that step and the cache, which holds
\* the entry of the call's membership query, is left as it is.
C37_OkOnlyAfterSilentSuccess ==
    /\ [](\A t \in SeqTasks :
            (ByScript(t) /\ task[t].pc = "done") =>
                IF task[t].ret.ok
                THEN /\ hist[t].mutated
                     /\ task[t].res = OkRes({})
                     /\ cache = EmptyCache
                ELSE hist[t].mutated =>
                        CacheKey(map_to_script_type(task[t].call.qa), NoPath)
                            \in DOMAIN cache)
    /\ [][\A t \in SeqTasks :
            (ByScript(t) /\ task'[t] # task[t]) =>
                /\ (CurInstr(t) = "mut_script" /\ task[t].pc \in {"running", "exited"}
                        /\ task'[t].pc # "exited"
                        /\ ~(task[t].pc = "exited" /\ task[t].out.exit = "ok")) =>
                        /\ task'[t].pc = "done" /\ ~task'[t].ret.ok
                        /\ cache' = cache
                /\ (At(t, "chk_empty") /\ task[t].res.val # {}) =>
                        /\ task'[t].pc = "done" /\ ~task'[t].ret.ok
                        /\ task'[t].ret.err = "ScriptFailed"
                        /\ cache' = cache]_vars

\* Witness: remove_item's script exited with status 0 but printed a line: the
\* call returned ScriptFailed and the entry of its membership query is still
\* in the cache.
C37_PrintedLineIsFailure ==
    \E t \in SeqTasks :
        /\ Done(t, "remove_item") /\ task[t].call.qa = "RecentFiles"
        /\ ~task[t].ret.ok /\ task[t].ret.err = "ScriptFailed"
        /\ hist[t].mutated
        /\ CacheKey("QueryRecentFile", NoPath) \in DOMAIN cache

----------------------------------------------------------------------------
\* Properties of add_item and remove_item for the combined kind.

\* The call of t is add_item or remove_item with QuickAccess::All.
MutatesAll(t) ==
    task[t].call.op \in {"add_item", "remove_item"} /\ task[t].call.qa = "All"

\* C38 as stated: such a call returns AlreadyExists or NotFound (the code's
\* NotInRecent) from the pre-check and UnsupportedOperation otherwise.
\* Refuted: when the membership query itself fails, its error is returned.
C38_OnlyPrecheckOrUnsupported ==
    \A t \in SeqTasks :
        (MutatesAll(t) /\ task[t].pc = "done") =>
            /\ ~task[t].ret.ok
            /\ task[t].ret.err \in
                    {"AlreadyExists", "NotInRecent", "UnsupportedOperation"}

\* C38, amended: such a call always returns an error: that of its membership
\* query when the query fails, AlreadyExists (add) or NotInRecent (remove)
\* from the pre-check, UnsupportedOperation otherwise; no step of it adds
\* natively, runs a mutating script, changes a list or removes a cache entry.
C38_CombinedKindRejected ==
    /\ [](\A t \in SeqTasks :
            MutatesAll(t) =>
                /\ ~hist[t].mutated
                /\ task[t].pc = "done" =>
                    /\ ~task[t].ret.ok
                    /\ \/ task[t].ret.err \in {"Io", "PowerShellExecution", "Timeout"}
                       \/ /\ task[t].ret.err = "AlreadyExists"
                          /\ task[t].call.op = "add_item"
                          /\ hist[t].pre = "present"
                       \/ /\ task[t].ret.err = "NotInRecent"
                          /\ task[t].call.op = "remove_item"
                          /\ hist[t].pre = "absent"
                       \/ /\ task[t].ret.err = "UnsupportedOperation"
                          /\ hist[t].pre =
                                IF task[t].call.op = "add_item" THEN "absent"
                                ELSE "present")
    /\ [][\A t \in SeqTasks :
            (MutatesAll(t) /\ task'[t] # task[t]) =>
                /\ recent' = recent /\ frequent' = frequent
                /\ \A k \in DOMAIN cache : k \in DOMAIN cache'
                /\ CurInstr(t) # "query" => cache' = cache]_vars

\* Witness: remove_item(d1, All) found the path among the items and returned
\* UnsupportedOperation; the folder is still listed and the entry of the
\* membership query is still cached.
C38_RemoveFromAllUnsupported ==
    \E t \in SeqTasks :
        /\ Done(t, "remove_item") /\ task[t].call.qa = "All"
        /\ task[t].call.path \in frequent
        /\ hist[t].pre = "present"
        /\ task[t].ret.err = "UnsupportedOperation"
        /\ CacheKey("QueryQuickAccess", NoPath) \in DOMAIN cache

----------------------------------------------------------------------------
\* Properties of check_item.

\* C39: check_item returns true exactly when one of the lines its get_items
\* returned equals the path; a line of which the path is only a part does
\* not count. No step of the call changes a list or a backing file's time,
\* or removes a cache entry.
C39_WholeLineMembership ==
    /\ [](\A t \in SeqTasks :
            Done(t, "check_item") =>
                /\ ~hist[t].mutated
                /\ task[t].ret.ok =>
                    task[t].ret.val = (\E line \in task[t].res.val :
                                            line = task[t].call.path))
    /\ [][\A t \in SeqTasks :
            (task[t].call.op = "check_item" /\ task'[t] # task[t]) =>
                /\ recent' = recent /\ frequent' = frequent
                /\ recentMtime' = recentMtime /\ frequentMtime' = frequentMtime
                /\ \A k \in DOMAIN cache : k \in DOMAIN cache']_vars

\* Witness: check_item("f", RecentFiles) returned false although the list
\* holds "f1", of which "f" is a part.
C39_PartOfLineIsNoMatch ==
    \E t \in SeqTasks :
        /\ Done(t, "check_item") /\ task[t].call.path = "f"
        /\ task[t].ret.ok /\ task[t].ret.val = FALSE
        /\ "f1" \in task[t].res.val

====
